---- MODULE Spec2Model ----
(***************************************************************************)
(* Sistema de Transito Inteligente: the incident index (ArvoreAVL), the    *)
(* road network (GrafoPonderado) and the two routing engines               *)
(* (SistemaTransito, SistemaTransitoMelhorado).                            *)
(*                                                                         *)
(* Numbers: the source uses Python floats and ints.  Weights, impacts,     *)
(* distances and times are modelled as exact integers; the distances and  *)
(* speeds offered to adicionar_via make (d / v) * 60 and (t / 60) * v      *)
(* exact.  Vertex names contain no '-', so the key f"{o}-{d}" and its      *)
(* split('-') are modelled by the ordered pair <<o, d>>.                   *)
(***************************************************************************)
EXTENDS Integers, Sequences, FiniteSets, TLC

VARIABLES
    vertices,           \* GrafoPonderado.vertices
    arestas,            \* GrafoPonderado.arestas, as a function <<o, d>> -> peso
    pesos_originais,    \* GrafoPonderado.pesos_originais, <<o, d>> -> peso
    raiz,               \* ArvoreAVL.raiz
    total_eventos,      \* ArvoreAVL.total_eventos
    proximo_id_evento,  \* SistemaTransito(.Melhorado).proximo_id_evento
    velocidades,        \* SistemaTransitoMelhorado.velocidades, <<o, d>> -> km/h
    motor,              \* which engine class was constructed over grafo and avl
    relogio,            \* int(time.time())
    chamada,            \* the last call: its name, arguments, locals and result
    quadro,             \* the locals and position of a comparar_rotas call
                        \* that has started and not yet returned
    arquivos            \* the contents of dados/grafo.txt and dados/eventos.txt

grafoVars == <<vertices, arestas, pesos_originais>>
avlVars == <<raiz, total_eventos>>
motorVars == <<proximo_id_evento, velocidades, motor, relogio, quadro, arquivos>>
vars == <<vertices, arestas, pesos_originais, raiz, total_eventos,
          proximo_id_evento, velocidades, motor, relogio, chamada, quadro,
          arquivos>>

-----------------------------------------------------------------------------
(* Bounds of the model *)

MaxNos == 4          \* nodes in the tree
MaxId == 4           \* ids offered to ArvoreAVL.inserir
MaxTimestamp == 3    \* timestamps offered to ArvoreAVL.inserir
MaxDeriva == 1       \* how far total_eventos may fall below the node count

MaxPeso == 2         \* edge weights offered to adicionar_aresta
MaxArestas == 3      \* undirected edges in the graph of SpecGrafo
MaxEventos == 2      \* incidents an engine registers in one run
MaxRelogio == 2      \* last reading of the clock
MaxRegistros == 5    \* incidents the engine of SpecIndice registers in one run
MaxNosArquivos == 3  \* incidents the index of SpecArquivos holds at once
MaxPesoArquivos == 8 \* heaviest edge an incident of SpecArquivos is registered on
MaxNosExpirar == 4    \* incidents the index of SpecExpirar holds at once

Ids == 1..MaxId
Timestamps == 1..MaxTimestamp

Max(a, b) == IF a > b THEN a ELSE b
Range(f) == {f[i] : i \in DOMAIN f}

-----------------------------------------------------------------------------
(* ArvoreAVL (avl_tree.py) *)

\* Python's None where a node is expected
Nil == [nil |-> TRUE]

NoAVL(id_evento, timestamp, tipo, localizacao, impacto) ==
    [id |-> id_evento, timestamp |-> timestamp, tipo |-> tipo,
     localizacao |-> localizacao, impacto |-> impacto,
     altura |-> 1, esquerda |-> Nil, direita |-> Nil]

altura(no) == IF no = Nil THEN 0 ELSE no.altura

balanceamento(no) ==
    IF no = Nil THEN 0 ELSE altura(no.esquerda) - altura(no.direita)

\* a height that looks at the left subtree only
atualizar_altura_so_esquerda(no) ==
    IF no = Nil THEN no
    ELSE [no EXCEPT !.altura = 1 + altura(no.esquerda)]

atualizar_altura(no) ==
    IF no = Nil THEN no
    ELSE [no EXCEPT !.altura = 1 + Max(altura(no.esquerda), altura(no.direita))]

rotacao_direita(y) ==
    LET x == y.esquerda
        T2 == x.direita
        y2 == atualizar_altura([y EXCEPT !.esquerda = T2])
    IN  atualizar_altura([x EXCEPT !.direita = y2])

\* a left rotation that hangs x on the right of y
rotacao_esquerda_a_direita(x) ==
    LET y == x.direita
        T2 == y.esquerda
        x2 == atualizar_altura([x EXCEPT !.direita = T2])
    IN  atualizar_altura([y EXCEPT !.esquerda = y.direita, !.direita = x2])

rotacao_esquerda(x) ==
    LET y == x.direita
        T2 == y.esquerda
        x2 == atualizar_altura([x EXCEPT !.direita = T2])
    IN  atualizar_altura([y EXCEPT !.esquerda = x2])

\* a balancing step that handles the two single-rotation cases only
_balancear_so_simples(no) ==
    LET bal == balanceamento(no)
    IN  IF bal > 1 /\ balanceamento(no.esquerda) >= 0
            THEN rotacao_direita(no)
        ELSE IF bal < -1 /\ balanceamento(no.direita) <= 0
            THEN rotacao_esquerda(no)
        ELSE no

_balancear(no) ==
    LET bal == balanceamento(no)
    IN  IF bal > 1 /\ balanceamento(no.esquerda) >= 0
            THEN rotacao_direita(no)
        ELSE IF bal < -1 /\ balanceamento(no.direita) <= 0
            THEN rotacao_esquerda(no)
        ELSE IF bal > 1 /\ balanceamento(no.esquerda) < 0
            THEN rotacao_direita([no EXCEPT !.esquerda = rotacao_esquerda(no.esquerda)])
        ELSE IF bal < -1 /\ balanceamento(no.direita) > 0
            THEN rotacao_esquerda([no EXCEPT !.direita = rotacao_direita(no.direita)])
        ELSE no

\* an insertion that descends by id, the key of buscar and remover
RECURSIVE _inserir_por_id(_, _)
_inserir_por_id(no, novo) ==
    IF no = Nil THEN novo
    ELSE LET no2 == IF novo.id < no.id
                        THEN [no EXCEPT !.esquerda = _inserir_por_id(no.esquerda, novo)]
                        ELSE [no EXCEPT !.direita = _inserir_por_id(no.direita, novo)]
         IN  _balancear(atualizar_altura(no2))

\* a node whose timestamp equals the one of the node met goes to the left
RECURSIVE _inserir_recursivo_empate_a_esquerda(_, _)
_inserir_recursivo_empate_a_esquerda(no, novo) ==
    IF no = Nil THEN novo
    ELSE LET no2 == IF novo.timestamp <= no.timestamp
                        THEN [no EXCEPT !.esquerda =
                                  _inserir_recursivo_empate_a_esquerda(no.esquerda, novo)]
                        ELSE [no EXCEPT !.direita =
                                  _inserir_recursivo_empate_a_esquerda(no.direita, novo)]
         IN  _balancear(atualizar_altura(no2))

RECURSIVE _inserir_recursivo(_, _)
_inserir_recursivo(no, novo) ==
    IF no = Nil THEN novo
    ELSE LET no2 == IF novo.timestamp < no.timestamp
                        THEN [no EXCEPT !.esquerda = _inserir_recursivo(no.esquerda, novo)]
                        ELSE [no EXCEPT !.direita = _inserir_recursivo(no.direita, novo)]
         IN  _balancear(atualizar_altura(no2))

RECURSIVE _minimo(_)
_minimo(no) == IF no.esquerda = Nil THEN no ELSE _minimo(no.esquerda)

\* returns the pair (no, removido) as a record
RECURSIVE _remover_recursivo(_, _)
_remover_recursivo(no, id_evento) ==
    IF no = Nil THEN [no |-> no, removido |-> FALSE]
    ELSE IF id_evento = no.id THEN
        IF no.esquerda = Nil THEN [no |-> no.direita, removido |-> TRUE]
        ELSE IF no.direita = Nil THEN [no |-> no.esquerda, removido |-> TRUE]
        ELSE LET temp == _minimo(no.direita)
                 r == _remover_recursivo(no.direita, temp.id)
                 no2 == [no EXCEPT !.id = temp.id,
                                   !.timestamp = temp.timestamp,
                                   !.tipo = temp.tipo,
                                   !.localizacao = temp.localizacao,
                                   !.impacto = temp.impacto,
                                   !.direita = r.no]
             IN  [no |-> _balancear(atualizar_altura(no2)), removido |-> TRUE]
    ELSE LET r == IF id_evento < no.id
                      THEN _remover_recursivo(no.esquerda, id_evento)
                      ELSE _remover_recursivo(no.direita, id_evento)
             no2 == IF id_evento < no.id
                        THEN [no EXCEPT !.esquerda = r.no]
                        ELSE [no EXCEPT !.direita = r.no]
         IN  IF ~r.removido THEN [no |-> no2, removido |-> FALSE]
             ELSE [no |-> _balancear(atualizar_altura(no2)), removido |-> TRUE]

RECURSIVE _buscar_recursivo(_, _)
_buscar_recursivo(no, id_evento) ==
    IF no = Nil \/ no.id = id_evento THEN no
    ELSE IF id_evento < no.id THEN _buscar_recursivo(no.esquerda, id_evento)
    ELSE _buscar_recursivo(no.direita, id_evento)

buscar(r, id_evento) == _buscar_recursivo(r, id_evento)

\* the in-order list of the nodes
RECURSIVE _inorder(_)
_inorder(no) ==
    IF no = Nil THEN <<>>
    ELSE _inorder(no.esquerda) \o <<no>> \o _inorder(no.direita)

listar_todos(r) == _inorder(r)

RECURSIVE _buscar_localizacao(_, _)
_buscar_localizacao(no, localizacao) ==
    IF no = Nil THEN <<>>
    ELSE _buscar_localizacao(no.esquerda, localizacao)
         \o (IF no.localizacao = localizacao THEN <<no>> ELSE <<>>)
         \o _buscar_localizacao(no.direita, localizacao)

buscar_por_localizacao(r, localizacao) == _buscar_localizacao(r, localizacao)

\* the fields of a node that make up the incident record
Registro(no) ==
    [id |-> no.id, timestamp |-> no.timestamp, tipo |-> no.tipo,
     localizacao |-> no.localizacao, impacto |-> no.impacto]

Registros(r) == [i \in 1..Len(listar_todos(r)) |-> Registro(listar_todos(r)[i])]

\* ArvoreAVL.inserir, on the tree fields
Inserir(id_evento, timestamp, tipo, localizacao, impacto) ==
    /\ Len(listar_todos(raiz)) < MaxNos
    /\ raiz' = _inserir_recursivo(raiz, NoAVL(id_evento, timestamp, tipo, localizacao, impacto))
    /\ total_eventos' = total_eventos + 1
    /\ chamada' = [op |-> "inserir", id |-> id_evento, timestamp |-> timestamp, ret |-> TRUE]
    /\ UNCHANGED <<grafoVars, motorVars>>

\* ArvoreAVL.remover
Remover(id_evento) ==
    LET r == _remover_recursivo(raiz, id_evento)
        total == IF r.removido THEN total_eventos - 1 ELSE total_eventos
    IN  /\ Len(listar_todos(r.no)) - total <= MaxDeriva
        /\ raiz' = r.no
        /\ total_eventos' = total
        /\ chamada' = [op |-> "remover", id |-> id_evento, antes |-> raiz,
                        ret |-> r.removido]
        /\ UNCHANGED <<grafoVars, motorVars>>

\* ArvoreAVL.buscar
Buscar(id_evento) ==
    /\ chamada' = [op |-> "buscar", id |-> id_evento, ret |-> buscar(raiz, id_evento)]
    /\ UNCHANGED <<grafoVars, avlVars, motorVars>>

-----------------------------------------------------------------------------
(* GrafoPonderado (grafo_ponderado.py) *)

\* vertex names, and their order as Python strings (it breaks ties in the heap)
Vertices == {"A", "B", "C", "D"}
Ordem == [v \in Vertices \cup {"E"} |->
             CASE v = "A" -> 1 [] v = "B" -> 2 [] v = "C" -> 3 [] v = "D" -> 4
               [] v = "E" -> 5]

\* float('inf')
Inf == 1000000

\* Python's None where a vertex is expected, and where a path is expected
SemVertice == "None"
SemCaminho == <<>>

\* an empty dict
DictVazio == [k \in {} |-> 0]

\* d[k] = v on a dict, and del d[k]
Atribuir(d, k, v) == [x \in (DOMAIN d) \cup {k} |-> IF x = k THEN v ELSE d[x]]
Apagar(d, k) == [x \in (DOMAIN d) \ {k} |-> d[x]]

\* origem in self.arestas and destino in self.arestas[origem]
ExisteAresta(A, origem, destino) == <<origem, destino>> \in DOMAIN A

\* the baseline of an edge that is already there is kept (dict.setdefault)
adicionar_aresta_preserva_original(V, A, P, origem, destino, peso) ==
    LET A2 == Atribuir(Atribuir(A, <<origem, destino>>, peso), <<destino, origem>>, peso)
        P1 == IF <<origem, destino>> \in DOMAIN P THEN P
              ELSE Atribuir(P, <<origem, destino>>, peso)
        P2 == IF <<destino, origem>> \in DOMAIN P1 THEN P1
              ELSE Atribuir(P1, <<destino, origem>>, peso)
    IN  [vertices |-> V \cup {origem, destino}, arestas |-> A2,
         pesos_originais |-> P2, ret |-> TRUE]

\* results are records: the new fields of the graph and the returned value
adicionar_aresta(V, A, P, origem, destino, peso) ==
    LET A2 == Atribuir(Atribuir(A, <<origem, destino>>, peso), <<destino, origem>>, peso)
        P2 == Atribuir(Atribuir(P, <<origem, destino>>, peso), <<destino, origem>>, peso)
    IN  [vertices |-> V \cup {origem, destino}, arestas |-> A2,
         pesos_originais |-> P2, ret |-> TRUE]

\* the second del raises KeyError when the first one already removed the
\* entry (origem = destino); the method is left with the first del done, and
\* excecao tells that it raised instead of returning
remover_aresta(A, P, origem, destino) ==
    IF ExisteAresta(A, origem, destino) THEN
        LET A1 == Apagar(A, <<origem, destino>>)
        IN  IF <<destino, origem>> \notin DOMAIN A1
                THEN [arestas |-> A1, pesos_originais |-> P, ret |-> "KeyError",
                      excecao |-> TRUE]
                ELSE [arestas |-> Apagar(A1, <<destino, origem>>),
                      pesos_originais |-> Apagar(Apagar(P, <<origem, destino>>),
                                                 <<destino, origem>>),
                      ret |-> TRUE, excecao |-> FALSE]
    ELSE [arestas |-> A, pesos_originais |-> P, ret |-> FALSE, excecao |-> FALSE]

\* the membership test is left out: the defaultdict takes the assignment
atualizar_peso_cria_aresta(A, origem, destino, novo_peso) ==
    [arestas |-> Atribuir(Atribuir(A, <<origem, destino>>, novo_peso),
                          <<destino, origem>>, novo_peso),
     ret |-> TRUE]

\* only self.arestas[origem][destino] is written
atualizar_peso_uma_direcao(A, origem, destino, novo_peso) ==
    IF ExisteAresta(A, origem, destino)
        THEN [arestas |-> Atribuir(A, <<origem, destino>>, novo_peso), ret |-> TRUE]
        ELSE [arestas |-> A, ret |-> FALSE]

atualizar_peso(A, origem, destino, novo_peso) ==
    IF ExisteAresta(A, origem, destino)
        THEN [arestas |-> Atribuir(Atribuir(A, <<origem, destino>>, novo_peso),
                                   <<destino, origem>>, novo_peso),
              ret |-> TRUE]
        ELSE [arestas |-> A, ret |-> FALSE]

\* None is modelled by Nil
obter_peso(A, origem, destino) ==
    IF ExisteAresta(A, origem, destino) THEN A[<<origem, destino>>] ELSE Nil

obter_peso_original(P, origem, destino) ==
    IF <<origem, destino>> \in DOMAIN P THEN P[<<origem, destino>>] ELSE Nil

\* self.arestas[atual].items(), the keys
Vizinhos(A, atual) == {k[2] : k \in {x \in DOMAIN A : x[1] = atual}}

\* a heap that orders its entries by vertex name only
MenorDaFilaPorNome(fila) ==
    CHOOSE e \in fila : \A f \in fila :
        \/ Ordem[e[2]] < Ordem[f[2]]
        \/ e[2] = f[2] /\ e[1] <= f[1]

\* a heap popped from the wrong end
MenorDaFilaInvertida(fila) ==
    CHOOSE e \in fila : \A f \in fila :
        \/ e[1] > f[1]
        \/ e[1] = f[1] /\ Ordem[e[2]] >= Ordem[f[2]]

\* the entry heapq.heappop returns: the least tuple (distancia, vertice)
MenorDaFila(fila) ==
    CHOOSE e \in fila : \A f \in fila :
        \/ e[1] < f[1]
        \/ e[1] = f[1] /\ Ordem[e[2]] <= Ordem[f[2]]

\* an iteration that leaves in the heap the entry of a vertex already visited
_dijkstra_iteracao_sem_descarte(A, destino, st) ==
    LET e == MenorDaFila(st.fila)
        dist_atual == e[1]
        atual == e[2]
        fila1 == st.fila \ {e}
        visitados1 == st.visitados \cup {atual}
        melhora == {v \in Vizinhos(A, atual) :
                        /\ v \notin visitados1
                        /\ dist_atual + A[<<atual, v>>] < st.distancias[v]}
    IN  IF atual \in st.visitados THEN st
        ELSE IF atual = destino
            THEN [st EXCEPT !.fila = fila1, !.visitados = visitados1, !.parou = TRUE]
        ELSE [distancias |-> [v \in DOMAIN st.distancias |->
                                IF v \in melhora THEN dist_atual + A[<<atual, v>>]
                                ELSE st.distancias[v]],
              predecessores |-> [v \in DOMAIN st.predecessores |->
                                IF v \in melhora THEN atual ELSE st.predecessores[v]],
              visitados |-> visitados1,
              fila |-> fila1 \cup {<<dist_atual + A[<<atual, v>>], v>> : v \in melhora},
              parou |-> FALSE]

\* one iteration of the main loop of dijkstra (lines 136-158); fila holds
\* the tuples of the heap, parou is set by the break
_dijkstra_iteracao(A, destino, st) ==
    LET e == MenorDaFila(st.fila)
        dist_atual == e[1]
        atual == e[2]
        fila1 == st.fila \ {e}
        visitados1 == st.visitados \cup {atual}
        melhora == {v \in Vizinhos(A, atual) :
                        /\ v \notin visitados1
                        /\ dist_atual + A[<<atual, v>>] < st.distancias[v]}
    IN  IF atual \in st.visitados THEN [st EXCEPT !.fila = fila1]
        ELSE IF atual = destino
            THEN [st EXCEPT !.fila = fila1, !.visitados = visitados1, !.parou = TRUE]
        ELSE [distancias |-> [v \in DOMAIN st.distancias |->
                                IF v \in melhora THEN dist_atual + A[<<atual, v>>]
                                ELSE st.distancias[v]],
              predecessores |-> [v \in DOMAIN st.predecessores |->
                                IF v \in melhora THEN atual ELSE st.predecessores[v]],
              visitados |-> visitados1,
              fila |-> fila1 \cup {<<dist_atual + A[<<atual, v>>], v>> : v \in melhora},
              parou |-> FALSE]

RECURSIVE _dijkstra_laco(_, _, _)
_dijkstra_laco(A, destino, st) ==
    IF st.fila = {} \/ st.parou THEN st
    ELSE _dijkstra_laco(A, destino, _dijkstra_iteracao(A, destino, st))

\* the path from the origin to atual along predecessores (lines 160-167)
RECURSIVE _reconstruir(_, _)
_reconstruir(predecessores, atual) ==
    IF atual = SemVertice THEN <<>>
    ELSE _reconstruir(predecessores, predecessores[atual]) \o <<atual>>

\* the test for a path that holds the destination only is left out
dijkstra_sem_teste_final(V, A, origem, destino) ==
    IF origem \notin V \/ destino \notin V
        THEN [caminho |-> SemCaminho, distancia |-> Inf]
    ELSE LET st0 == [distancias |-> [v \in V |-> IF v = origem THEN 0 ELSE Inf],
                     predecessores |-> [v \in V |-> SemVertice],
                     visitados |-> {},
                     fila |-> {<<0, origem>>},
                     parou |-> FALSE]
             fim == _dijkstra_laco(A, destino, st0)
         IN  [caminho |-> _reconstruir(fim.predecessores, destino),
              distancia |-> fim.distancias[destino]]

dijkstra(V, A, origem, destino) ==
    IF origem \notin V \/ destino \notin V
        THEN [caminho |-> SemCaminho, distancia |-> Inf]
    ELSE LET st0 == [distancias |-> [v \in V |-> IF v = origem THEN 0 ELSE Inf],
                     predecessores |-> [v \in V |-> SemVertice],
                     visitados |-> {},
                     fila |-> {<<0, origem>>},
                     parou |-> FALSE]
             fim == _dijkstra_laco(A, destino, st0)
             caminho == _reconstruir(fim.predecessores, destino)
         IN  IF Len(caminho) = 1 /\ caminho[1] # origem
                 THEN [caminho |-> SemCaminho, distancia |-> Inf]
                 ELSE [caminho |-> caminho, distancia |-> fim.distancias[destino]]

\* the vertices of S as a list; the order in which a dict yields the
\* neighbours does not change what existe_caminho returns
RECURSIVE EmLista(_)
EmLista(S) ==
    IF S = {} THEN <<>>
    ELSE LET v == CHOOSE x \in S : \A y \in S : Ordem[x] <= Ordem[y]
         IN  <<v>> \o EmLista(S \ {v})

\* the while loop of existe_caminho, on fila and visitados
RECURSIVE _existe_caminho_laco(_, _, _, _)
_existe_caminho_laco(A, destino, fila, visitados) ==
    IF fila = <<>> THEN FALSE
    ELSE LET atual == Head(fila)
             novos == Vizinhos(A, atual) \ visitados
         IN  IF atual = destino THEN TRUE
             ELSE _existe_caminho_laco(A, destino, Tail(fila) \o EmLista(novos),
                                       visitados \cup novos)

existe_caminho(V, A, origem, destino) ==
    IF origem \notin V \/ destino \notin V THEN FALSE
    ELSE IF origem = destino THEN TRUE
    ELSE _existe_caminho_laco(A, destino, <<origem>>, {origem})

\* the undirected edges, one per pair (obter_todas_arestas, as a set)
ArestasUnicas(A) == {{k[1], k[2]} : k \in DOMAIN A}

AdicionarVertice(v) ==
    /\ vertices' = vertices \cup {v}
    /\ chamada' = [op |-> "adicionar_vertice", ret |-> TRUE]
    /\ UNCHANGED <<arestas, pesos_originais, avlVars, motorVars>>

AdicionarAresta(origem, destino, peso) ==
    LET r == adicionar_aresta(vertices, arestas, pesos_originais, origem, destino, peso)
    IN  /\ Cardinality(ArestasUnicas(r.arestas)) <= MaxArestas
        /\ vertices' = r.vertices
        /\ arestas' = r.arestas
        /\ pesos_originais' = r.pesos_originais
        /\ chamada' = [op |-> "adicionar_aresta", ret |-> r.ret]
        /\ UNCHANGED <<avlVars, motorVars>>

RemoverAresta(origem, destino) ==
    LET r == remover_aresta(arestas, pesos_originais, origem, destino)
    IN  /\ arestas' = r.arestas
        /\ pesos_originais' = r.pesos_originais
        /\ chamada' = [op |-> "remover_aresta", origem |-> origem, destino |-> destino,
                        ret |-> r.ret, excecao |-> r.excecao]
        /\ UNCHANGED <<vertices, avlVars, motorVars>>

AtualizarPeso(origem, destino, novo_peso) ==
    LET r == atualizar_peso(arestas, origem, destino, novo_peso)
    IN  /\ arestas' = r.arestas
        /\ chamada' = [op |-> "atualizar_peso", origem |-> origem, destino |-> destino,
                        novo_peso |-> novo_peso, ret |-> r.ret]
        /\ UNCHANGED <<vertices, pesos_originais, avlVars, motorVars>>

Dijkstra(origem, destino) ==
    /\ chamada' = [op |-> "dijkstra", origem |-> origem, destino |-> destino,
                    ret |-> dijkstra(vertices, arestas, origem, destino)]
    /\ UNCHANGED <<grafoVars, avlVars, motorVars>>

-----------------------------------------------------------------------------
(* SistemaTransito (sistema_transito.py) *)

\* the id is taken from the number of incidents in the index
registrar_evento_id_por_total(A, r, total, proximo, agora, tipo, origem, destino, impacto) ==
    IF ~ExisteAresta(A, origem, destino)
        THEN [arestas |-> A, raiz |-> r, total_eventos |-> total,
              proximo_id_evento |-> proximo, ret |-> FALSE]
    ELSE [arestas |-> atualizar_peso(A, origem, destino,
                                     A[<<origem, destino>>] + impacto).arestas,
          raiz |-> _inserir_recursivo(r, NoAVL(total + 1, agora, tipo,
                                               <<origem, destino>>, impacto)),
          total_eventos |-> total + 1,
          proximo_id_evento |-> proximo + 1,
          ret |-> TRUE]

\* a registration that takes its id before it validates the edge
registrar_evento_gasta_id(A, r, total, proximo, agora, tipo, origem, destino, impacto) ==
    IF ~ExisteAresta(A, origem, destino)
        THEN [arestas |-> A, raiz |-> r, total_eventos |-> total,
              proximo_id_evento |-> proximo + 1, ret |-> FALSE]
    ELSE [arestas |-> atualizar_peso(A, origem, destino,
                                     A[<<origem, destino>>] + impacto).arestas,
          raiz |-> _inserir_recursivo(r, NoAVL(proximo, agora, tipo,
                                               <<origem, destino>>, impacto)),
          total_eventos |-> total + 1,
          proximo_id_evento |-> proximo + 1,
          ret |-> TRUE]

\* a registration that sets the weight to the impact instead of adding it
registrar_evento_sem_soma(A, r, total, proximo, agora, tipo, origem, destino, impacto) ==
    IF ~ExisteAresta(A, origem, destino)
        THEN [arestas |-> A, raiz |-> r, total_eventos |-> total,
              proximo_id_evento |-> proximo, ret |-> FALSE]
    ELSE [arestas |-> atualizar_peso(A, origem, destino, impacto).arestas,
          raiz |-> _inserir_recursivo(r, NoAVL(proximo, agora, tipo,
                                               <<origem, destino>>, impacto)),
          total_eventos |-> total + 1,
          proximo_id_evento |-> proximo + 1,
          ret |-> TRUE]

\* results are records: the new fields of the engine that the method may
\* change, and the returned value (ret is the first component of the tuple)
registrar_evento(A, r, total, proximo, agora, tipo, origem, destino, impacto) ==
    IF ~ExisteAresta(A, origem, destino)
        THEN [arestas |-> A, raiz |-> r, total_eventos |-> total,
              proximo_id_evento |-> proximo, ret |-> FALSE]
    ELSE LET peso_atual == A[<<origem, destino>>]
             id_evento == proximo
             novo == NoAVL(id_evento, agora, tipo, <<origem, destino>>, impacto)
             novo_peso == peso_atual + impacto
         IN  [arestas |-> atualizar_peso(A, origem, destino, novo_peso).arestas,
              raiz |-> _inserir_recursivo(r, novo),
              total_eventos |-> total + 1,
              proximo_id_evento |-> proximo + 1,
              ret |-> TRUE]

\* a removal that reports success when the id is not found
remover_evento_silencioso(A, P, r, total, id_evento) ==
    LET evento == buscar(r, id_evento)
        A2 == IF evento # Nil /\ evento.localizacao \in DOMAIN P
                     /\ P[evento.localizacao] # 0
                  THEN atualizar_peso(A, evento.localizacao[1], evento.localizacao[2],
                                      P[evento.localizacao]).arestas
                  ELSE A
        rem == _remover_recursivo(r, id_evento)
    IN  [arestas |-> A2, raiz |-> rem.no,
         total_eventos |-> IF rem.removido THEN total - 1 ELSE total,
         ret |-> TRUE]

\* `if peso_original:` is false for None and for 0
remover_evento(A, P, r, total, id_evento) ==
    LET evento == buscar(r, id_evento)
    IN  IF evento = Nil
            THEN [arestas |-> A, raiz |-> r, total_eventos |-> total, ret |-> FALSE]
        ELSE LET origem == evento.localizacao[1]
                 destino == evento.localizacao[2]
                 chave == <<origem, destino>>
                 A2 == IF chave \in DOMAIN P /\ P[chave] # 0
                           THEN atualizar_peso(A, origem, destino, P[chave]).arestas
                           ELSE A
                 rem == _remover_recursivo(r, id_evento)
             IN  [arestas |-> A2, raiz |-> rem.no,
                  total_eventos |-> IF rem.removido THEN total - 1 ELSE total,
                  ret |-> TRUE]

\* a substitution of the baseline weights that was left out
_restaurar_originais_omitido(A, P) == A

\* lines 139-143: every edge that has a baseline weight gets it
_restaurar_originais(A, P) ==
    [k \in DOMAIN A |-> IF k \in DOMAIN P THEN P[k] ELSE A[k]]

\* a restore loop that was left out
_restaurar_atuais_omitido(A, pesos_temp) == A

\* lines 148-152: every edge gets the weight saved in pesos_temp
_restaurar_atuais(A, pesos_temp) ==
    [k \in DOMAIN A |-> IF k \in DOMAIN pesos_temp THEN pesos_temp[k] ELSE A[k]]

comparar_rotas(V, A, P, origem, destino) ==
    LET pesos_temp == A
        A1 == _restaurar_originais(A, P)
        ideal == dijkstra(V, A1, origem, destino)
        A2 == _restaurar_atuais(A1, pesos_temp)
        atual == dijkstra(V, A2, origem, destino)
    IN  [arestas |-> A2,
         ret |-> [rota_ideal |-> ideal, rota_atual |-> atual,
                  impacto |-> IF ideal.distancia # Inf
                                  THEN atual.distancia - ideal.distancia ELSE 0]]

(* salvar_dados and carregar_dados.  A file is modelled by its lines and a
   line by the tokens split() yields.  A number written by an f-string and
   read back by float() or int() is the same number (repr of a float round
   trips), so a numeric token is modelled by its value.  The weight of an
   edge line is the one token that may hold the text 'None', which float()
   refuses: it is modelled by <<w>> for the text of the number w and by <<>>
   for 'None'.  The token of a localizacao is
   modelled by what split('-') yields from it: a pair for 'A-B', a tuple of
   another length for a text with no or several '-'. *)

\* the entries of self.arestas seen once per road; the order of a dict is
\* the order of insertion, which the model replaces by the order of the names
RECURSIVE ListaDeArestas(_)
ListaDeArestas(S) ==
    IF S = {} THEN <<>>
    ELSE LET k == CHOOSE x \in S : \A y \in S :
                      \/ Ordem[x[1]] < Ordem[y[1]]
                      \/ Ordem[x[1]] = Ordem[y[1]] /\ Ordem[x[2]] <= Ordem[y[2]]
         IN  <<k>> \o ListaDeArestas(S \ {k})

obter_todas_arestas(A) ==
    LET unicas == ListaDeArestas({k \in DOMAIN A : Ordem[k[1]] <= Ordem[k[2]]})
    IN  [i \in DOMAIN unicas |-> <<unicas[i][1], unicas[i][2], A[unicas[i]]>>]

\* the two files salvar_dados writes
salvar_dados(V, A, P, r) ==
    LET unicas == obter_todas_arestas(A)
        eventos == listar_todos(r)
    IN  [grafo |-> [n_vertices |-> Cardinality(V),
                    vertices |-> EmLista(V),
                    n_arestas |-> Len(unicas),
                    linhas |-> [i \in DOMAIN unicas |->
                                   <<unicas[i][1], unicas[i][2],
                                     IF <<unicas[i][1], unicas[i][2]>> \in DOMAIN P
                                         THEN <<P[<<unicas[i][1], unicas[i][2]>>]>>
                                         ELSE <<>> >>]],
         eventos |-> [n_eventos |-> Len(eventos),
                      linhas |-> [i \in DOMAIN eventos |->
                                     <<eventos[i].id, eventos[i].timestamp, eventos[i].tipo,
                                       eventos[i].localizacao, eventos[i].impacto>>]]]

\* the loop over the edge lines of carregar_dados, from line i on; G holds the
\* three fields of the graph, erro tells that a line raised an exception
RECURSIVE _carregar_arestas(_, _, _, _)
_carregar_arestas(G, linhas, n_arestas, i) ==
    IF i > n_arestas THEN [G EXCEPT !.erro = FALSE]
    ELSE IF i > Len(linhas) THEN [G EXCEPT !.erro = TRUE]
    ELSE IF Len(linhas[i]) # 3 THEN [G EXCEPT !.erro = TRUE]
    ELSE IF linhas[i][3] = <<>> THEN [G EXCEPT !.erro = TRUE]
    ELSE LET g == adicionar_aresta(G.vertices, G.arestas, G.pesos_originais,
                                   linhas[i][1], linhas[i][2], linhas[i][3][1])
         IN  _carregar_arestas([vertices |-> g.vertices, arestas |-> g.arestas,
                                pesos_originais |-> g.pesos_originais, erro |-> FALSE],
                               linhas, n_arestas, i + 1)

\* the loop over the incident lines of carregar_dados, from line i on; E holds
\* arestas, raiz, total_eventos and max_id
RECURSIVE _carregar_eventos(_, _, _, _)
_carregar_eventos(E, linhas, n_eventos, i) ==
    IF i > n_eventos THEN [E EXCEPT !.erro = FALSE]
    ELSE IF i > Len(linhas) THEN [E EXCEPT !.erro = TRUE]
    ELSE IF Len(linhas[i]) < 5 THEN [E EXCEPT !.erro = TRUE]
    ELSE LET l == linhas[i]
             inserido == [E EXCEPT !.raiz = _inserir_recursivo(E.raiz,
                                                NoAVL(l[1], l[2], l[3], l[4], l[5])),
                                   !.total_eventos = E.total_eventos + 1]
         IN  IF Len(l[4]) # 2 THEN [inserido EXCEPT !.erro = TRUE]
             ELSE LET \* if peso_atual: false for None and for 0
                      A2 == IF /\ ExisteAresta(E.arestas, l[4][1], l[4][2])
                               /\ E.arestas[<<l[4][1], l[4][2]>>] # 0
                                THEN atualizar_peso(E.arestas, l[4][1], l[4][2],
                                                    E.arestas[<<l[4][1], l[4][2]>>]
                                                        + l[5]).arestas
                                ELSE E.arestas
                  IN  _carregar_eventos([inserido EXCEPT !.arestas = A2,
                                                         !.max_id = Max(E.max_id, l[1])],
                                        linhas, n_eventos, i + 1)

\* the fields of the engine after carregar_dados, and the first element of
\* the tuple it returns
carregar_dados(V, A, P, r, total, proximo, arq) ==
    IF arq.grafo = Nil
        THEN [vertices |-> V, arestas |-> A, pesos_originais |-> P, raiz |-> r,
              total_eventos |-> total, proximo_id_evento |-> proximo, ret |-> FALSE]
    ELSE \* the vertices are added before the number of edges is read
         LET G == _carregar_arestas([vertices |-> V \cup Range(arq.grafo.vertices),
                                     arestas |-> A, pesos_originais |-> P, erro |-> FALSE],
                                    arq.grafo.linhas, arq.grafo.n_arestas, 1)
         IN  IF G.erro \/ arq.eventos = Nil
                 THEN [vertices |-> G.vertices, arestas |-> G.arestas,
                       pesos_originais |-> G.pesos_originais, raiz |-> r,
                       total_eventos |-> total, proximo_id_evento |-> proximo,
                       ret |-> ~G.erro]
             ELSE LET E == _carregar_eventos([arestas |-> G.arestas, raiz |-> r,
                                              total_eventos |-> total, max_id |-> 0,
                                              erro |-> FALSE],
                                             arq.eventos.linhas, arq.eventos.n_eventos, 1)
                  IN  [vertices |-> G.vertices, arestas |-> E.arestas,
                       pesos_originais |-> G.pesos_originais, raiz |-> E.raiz,
                       total_eventos |-> E.total_eventos,
                       proximo_id_evento |-> IF E.erro THEN proximo ELSE E.max_id + 1,
                       ret |-> ~E.erro]

(* limpar_eventos_expirados.  listar_todos returns the nodes of the tree
   themselves, and remover copies a successor into the node it empties, so
   what evento.id and evento.timestamp give when the loop reaches a node is
   what that node holds then.  The nodes are numbered (field obj) for the
   time of the call to follow them. *)

RECURSIVE Tamanho(_)
Tamanho(no) == IF no = Nil THEN 0 ELSE 1 + Tamanho(no.esquerda) + Tamanho(no.direita)

\* the node that is the k-th element of listar_todos gets obj = base + k
RECURSIVE Numerar(_, _)
Numerar(no, base) ==
    IF no = Nil THEN Nil
    ELSE LET k == base + Tamanho(no.esquerda) + 1
         IN  [id |-> no.id, timestamp |-> no.timestamp, tipo |-> no.tipo,
              localizacao |-> no.localizacao, impacto |-> no.impacto,
              altura |-> no.altura, obj |-> k,
              esquerda |-> Numerar(no.esquerda, base),
              direita |-> Numerar(no.direita, k)]

RECURSIVE SemNumeros(_)
SemNumeros(no) ==
    IF no = Nil THEN Nil
    ELSE [id |-> no.id, timestamp |-> no.timestamp, tipo |-> no.tipo,
          localizacao |-> no.localizacao, impacto |-> no.impacto,
          altura |-> no.altura,
          esquerda |-> SemNumeros(no.esquerda),
          direita |-> SemNumeros(no.direita)]

\* the fields of the nodes of eventos after a removal: a node still in the
\* tree holds what the tree holds, a node taken out keeps what it held
CamposDosEventos(eventos, r) ==
    LET nos == _inorder(r)
    IN  [k \in DOMAIN eventos |->
            IF \E j \in DOMAIN nos : nos[j].obj = k
                THEN LET no == nos[CHOOSE j \in DOMAIN nos : nos[j].obj = k]
                     IN  [id |-> no.id, timestamp |-> no.timestamp]
            ELSE eventos[k]]

\* lines 345-348: the loop from its k-th element on
RECURSIVE _limpar_laco(_, _, _, _, _)
_limpar_laco(P, est, k, tempo_atual, tempo_expiracao) ==
    IF k > Len(est.eventos) THEN est
    ELSE LET evento == est.eventos[k]
         IN  IF tempo_atual - evento.timestamp > tempo_expiracao
                 THEN LET rem == remover_evento(est.arestas, P, est.raiz,
                                                est.total_eventos, evento.id)
                      IN  _limpar_laco(P,
                              [arestas |-> rem.arestas, raiz |-> rem.raiz,
                               total_eventos |-> rem.total_eventos,
                               eventos |-> CamposDosEventos(est.eventos, rem.raiz),
                               removidos |-> est.removidos + 1],
                              k + 1, tempo_atual, tempo_expiracao)
             ELSE _limpar_laco(P, est, k + 1, tempo_atual, tempo_expiracao)

limpar_eventos_expirados(A, P, r, total, agora, tempo_expiracao) ==
    LET numerada == Numerar(r, 0)
        eventos == listar_todos(numerada)
        fim == _limpar_laco(P,
                   [arestas |-> A, raiz |-> numerada, total_eventos |-> total,
                    eventos |-> [k \in DOMAIN eventos |->
                                    [id |-> eventos[k].id,
                                     timestamp |-> eventos[k].timestamp]],
                    removidos |-> 0],
                   1, agora, tempo_expiracao)
    IN  [arestas |-> fim.arestas, raiz |-> SemNumeros(fim.raiz),
         total_eventos |-> fim.total_eventos, ret |-> fim.removidos]


-----------------------------------------------------------------------------
(* SistemaTransitoMelhorado (sistema_transito_melhorado.py) *)

VELOCIDADE_PADRAO == 60

TiposMelhorado == {"acidente", "obra", "engarrafamento"}

VELOCIDADES_EVENTO ==
    [t \in TiposMelhorado |->
        CASE t = "acidente" -> 10 [] t = "obra" -> 20 [] t = "engarrafamento" -> 30]

\* (distancia_km / velocidade_kmh) * 60; exact for the speeds in use
_calcular_tempo(distancia_km, velocidade_kmh) ==
    IF velocidade_kmh <= 0 THEN Inf ELSE (distancia_km * 60) \div velocidade_kmh

\* self.velocidades.get(chave, VELOCIDADE_PADRAO)
VelocidadeDe(Vel, origem, destino) ==
    IF <<origem, destino>> \in DOMAIN Vel THEN Vel[<<origem, destino>>]
    ELSE VELOCIDADE_PADRAO

\* None is modelled by Nil; distancia is (tempo / 60) * velocidade
obter_info_via(A, Vel, origem, destino) ==
    IF ~ExisteAresta(A, origem, destino) THEN Nil
    ELSE LET tempo == A[<<origem, destino>>]
             velocidade == VelocidadeDe(Vel, origem, destino)
         IN  [distancia_km |-> (tempo * velocidade) \div 60,
              velocidade_kmh |-> velocidade,
              tempo_min |-> tempo]

adicionar_via(V, A, P, Vel, origem, destino, distancia_km, velocidade_kmh) ==
    LET tempo_minutos == _calcular_tempo(distancia_km, velocidade_kmh)
        g == adicionar_aresta(V, A, P, origem, destino, tempo_minutos)
    IN  [vertices |-> g.vertices, arestas |-> g.arestas,
         pesos_originais |-> g.pesos_originais,
         velocidades |-> Atribuir(Atribuir(Vel, <<origem, destino>>, velocidade_kmh),
                                  <<destino, origem>>, velocidade_kmh),
         ret |-> TRUE]

registrar_evento_melhorado(A, Vel, r, total, proximo, agora, tipo, origem, destino) ==
    LET falha == [arestas |-> A, velocidades |-> Vel, raiz |-> r,
                  total_eventos |-> total, proximo_id_evento |-> proximo,
                  ret |-> FALSE]
        info_antes == obter_info_via(A, Vel, origem, destino)
    IN  IF tipo \notin TiposMelhorado THEN falha
        ELSE IF info_antes = Nil THEN falha
        ELSE LET nova_velocidade == VELOCIDADES_EVENTO[tipo]
                 distancia == info_antes.distancia_km
                 novo_tempo == _calcular_tempo(distancia, nova_velocidade)
                 tempo_original == info_antes.tempo_min
                 aumento_tempo == novo_tempo - tempo_original
                 novo == NoAVL(proximo, agora, tipo, <<origem, destino>>, aumento_tempo)
             IN  [arestas |-> atualizar_peso(A, origem, destino, novo_tempo).arestas,
                  velocidades |-> Atribuir(Atribuir(Vel, <<origem, destino>>, nova_velocidade),
                                           <<destino, origem>>, nova_velocidade),
                  raiz |-> _inserir_recursivo(r, novo),
                  total_eventos |-> total + 1,
                  proximo_id_evento |-> proximo + 1,
                  ret |-> TRUE]

remover_evento_melhorado(A, Vel, r, total, id_evento) ==
    LET falha == [arestas |-> A, velocidades |-> Vel, raiz |-> r,
                  total_eventos |-> total, ret |-> FALSE]
        evento == buscar(r, id_evento)
    IN  IF evento = Nil THEN falha
        ELSE LET origem == evento.localizacao[1]
                 destino == evento.localizacao[2]
                 info == obter_info_via(A, Vel, origem, destino)
             IN  IF info = Nil THEN falha
                 ELSE LET distancia == info.distancia_km
                          tempo_normal == _calcular_tempo(distancia, VELOCIDADE_PADRAO)
                          rem == _remover_recursivo(r, id_evento)
                      IN  [arestas |-> atualizar_peso(A, origem, destino, tempo_normal).arestas,
                           velocidades |-> Atribuir(Atribuir(Vel, <<origem, destino>>,
                                                             VELOCIDADE_PADRAO),
                                                    <<destino, origem>>, VELOCIDADE_PADRAO),
                           raiz |-> rem.no,
                           total_eventos |-> IF rem.removido THEN total - 1 ELSE total,
                           ret |-> TRUE]

\* the distance of a path: the sum of obter_info_via(o, d)['distancia_km']
RECURSIVE _distancia_total(_, _, _)
_distancia_total(A, Vel, caminho) ==
    IF Len(caminho) < 2 THEN 0
    ELSE LET info == obter_info_via(A, Vel, caminho[1], caminho[2])
         IN  (IF info = Nil THEN 0 ELSE info.distancia_km)
             + _distancia_total(A, Vel, Tail(caminho))

\* velocidade_media_kmh and segmentos are left out of info_completa; d is the
\* pair grafo.dijkstra returned, bound once
calcular_rota_rapida(V, A, Vel, origem, destino) ==
    CHOOSE res \in
        {IF d.caminho = SemCaminho THEN [caminho |-> SemCaminho, info |-> Nil]
         ELSE [caminho |-> d.caminho,
               info |-> [tempo_total_min |-> d.distancia,
                         distancia_total_km |-> _distancia_total(A, Vel, d.caminho)]]
         : d \in {dijkstra(V, A, origem, destino)}} : TRUE

\* lines 295-300: the speeds of the keys of arestas that have one
_salvar_velocidades(A, Vel) == [k \in (DOMAIN A) \cap (DOMAIN Vel) |-> Vel[k]]

\* lines 303-304
_velocidades_padrao(Vel, velocidades_temp) ==
    [k \in DOMAIN Vel |-> IF k \in DOMAIN velocidades_temp THEN VELOCIDADE_PADRAO
                           ELSE Vel[k]]

\* lines 320-321
_restaurar_velocidades(Vel, velocidades_temp) ==
    [k \in (DOMAIN Vel) \cup (DOMAIN velocidades_temp) |->
        IF k \in DOMAIN velocidades_temp THEN velocidades_temp[k] ELSE Vel[k]]

\* lines 326-356: the result is None (Nil) when either route is missing;
\* velocidade_media and percentual_atraso are left out of it
_resultado_comparacao(ideal, atual) ==
    IF ideal.info # Nil /\ atual.info # Nil
    THEN LET diff_tempo == atual.info.tempo_total_min - ideal.info.tempo_total_min
             diff_distancia == atual.info.distancia_total_km
                                   - ideal.info.distancia_total_km
             rota_mudou == ideal.caminho # atual.caminho
         IN  [rota_ideal |-> ideal, rota_atual |-> atual,
              rota_mudou |-> rota_mudou,
              rota_mais_longa_mas_rapida |-> (diff_distancia > 0 /\ rota_mudou),
              diferenca_tempo_min |-> diff_tempo,
              diferenca_distancia_km |-> diff_distancia]
    ELSE Nil

\* ideal and atual are the two results of calcular_rota_rapida, bound once
comparar_rotas_melhorado(V, A, P, Vel, origem, destino) ==
    LET tempos_temp == A
        velocidades_temp == _salvar_velocidades(A, Vel)
        Vel1 == _velocidades_padrao(Vel, velocidades_temp)
        A1 == _restaurar_originais(A, P)
        A2 == _restaurar_atuais(A1, tempos_temp)
        Vel2 == _restaurar_velocidades(Vel1, velocidades_temp)
    IN  [arestas |-> A2, velocidades |-> Vel2,
         ret |-> CHOOSE res \in
                    {_resultado_comparacao(ideal, atual)
                     : ideal \in {calcular_rota_rapida(V, A1, Vel1, origem, destino)},
                       atual \in {calcular_rota_rapida(V, A2, Vel2, origem, destino)}}
                    : TRUE]

-----------------------------------------------------------------------------
(* The calls on an engine *)

Basico == "SistemaTransito"
Melhorado == "SistemaTransitoMelhorado"

\* time.time() advances between calls
Tique ==
    /\ relogio < MaxRelogio
    /\ relogio' = relogio + 1
    /\ UNCHANGED <<grafoVars, avlVars, proximo_id_evento, velocidades, motor, quadro, arquivos, chamada>>

\* grafo.adicionar_aresta on the graph of a SistemaTransito
AdicionarArestaMotor(origem, destino, peso) ==
    LET r == adicionar_aresta(vertices, arestas, pesos_originais, origem, destino, peso)
    IN  /\ motor = Basico
        /\ vertices' = r.vertices
        /\ arestas' = r.arestas
        /\ pesos_originais' = r.pesos_originais
        /\ chamada' = [op |-> "adicionar_aresta", origem |-> origem, destino |-> destino,
                        peso |-> peso, ret |-> r.ret]
        /\ UNCHANGED <<avlVars, motorVars>>

\* registrar_evento while the counter of ids is at most limite
RegistrarEventoAte(limite, tipo, origem, destino, impacto) ==
    LET r == registrar_evento(arestas, raiz, total_eventos, proximo_id_evento,
                              relogio, tipo, origem, destino, impacto)
    IN  /\ motor = Basico
        /\ proximo_id_evento <= limite
        /\ arestas' = r.arestas
        /\ raiz' = r.raiz
        /\ total_eventos' = r.total_eventos
        /\ proximo_id_evento' = r.proximo_id_evento
        /\ chamada' = [op |-> "registrar_evento", tipo |-> tipo,
                        origem |-> origem, destino |-> destino, impacto |-> impacto,
                        id |-> proximo_id_evento, arestas_antes |-> arestas,
                        velocidades_antes |-> velocidades, ret |-> r.ret]
        /\ UNCHANGED <<vertices, pesos_originais, velocidades, motor, quadro, arquivos, relogio>>

RegistrarEvento(tipo, origem, destino, impacto) ==
    RegistrarEventoAte(MaxEventos, tipo, origem, destino, impacto)

RemoverEvento(id_evento) ==
    LET r == remover_evento(arestas, pesos_originais, raiz, total_eventos, id_evento)
    IN  /\ motor = Basico
        /\ arestas' = r.arestas
        /\ raiz' = r.raiz
        /\ total_eventos' = r.total_eventos
        /\ chamada' = [op |-> "remover_evento", id |-> id_evento, ret |-> r.ret]
        /\ UNCHANGED <<vertices, pesos_originais, motorVars>>

CompararRotas(origem, destino) ==
    LET r == comparar_rotas(vertices, arestas, pesos_originais, origem, destino)
    IN  /\ motor = Basico
        /\ arestas' = r.arestas
        /\ chamada' = [op |-> "comparar_rotas", origem |-> origem, destino |-> destino,
                        ret |-> r.ret]
        /\ UNCHANGED <<vertices, pesos_originais, avlVars, motorVars>>

SalvarDados ==
    /\ motor = Basico
    /\ arquivos' = salvar_dados(vertices, arestas, pesos_originais, raiz)
    /\ chamada' = [op |-> "salvar_dados", ret |-> TRUE]
    /\ UNCHANGED <<grafoVars, avlVars, proximo_id_evento, velocidades, motor, relogio,
                   quadro>>

\* carregar_dados on the engine as it is, or (novo) on a SistemaTransito just
\* constructed over a new GrafoPonderado and a new ArvoreAVL, as
\* teste_persistencia does
CarregarDados(novo) ==
    \E r \in {IF novo
                  THEN carregar_dados({}, DictVazio, DictVazio, Nil, 0, 1, arquivos)
                  ELSE carregar_dados(vertices, arestas, pesos_originais, raiz,
                                      total_eventos, proximo_id_evento, arquivos)} :
        /\ motor = Basico
        /\ r.total_eventos <= MaxNosArquivos
        /\ vertices' = r.vertices
        /\ arestas' = r.arestas
        /\ pesos_originais' = r.pesos_originais
        /\ raiz' = r.raiz
        /\ total_eventos' = r.total_eventos
        /\ proximo_id_evento' = r.proximo_id_evento
        /\ chamada' = [op |-> "carregar_dados", novo |-> novo, ret |-> r.ret]
        /\ UNCHANGED <<velocidades, motor, relogio, quadro, arquivos>>

LimparEventosExpirados(tempo_expiracao) ==
    \E r \in {limpar_eventos_expirados(arestas, pesos_originais, raiz, total_eventos,
                                       relogio, tempo_expiracao)} :
        /\ motor = Basico
        /\ arestas' = r.arestas
        /\ raiz' = r.raiz
        /\ total_eventos' = r.total_eventos
        /\ chamada' = [op |-> "limpar_eventos_expirados",
                        tempo_expiracao |-> tempo_expiracao, ret |-> r.ret]
        /\ UNCHANGED <<vertices, pesos_originais, motorVars>>

AdicionarVia(origem, destino, distancia_km, velocidade_kmh) ==
    LET r == adicionar_via(vertices, arestas, pesos_originais, velocidades,
                           origem, destino, distancia_km, velocidade_kmh)
    IN  /\ motor = Melhorado
        /\ vertices' = r.vertices
        /\ arestas' = r.arestas
        /\ pesos_originais' = r.pesos_originais
        /\ velocidades' = r.velocidades
        /\ chamada' = [op |-> "adicionar_via", ret |-> r.ret]
        /\ UNCHANGED <<avlVars, proximo_id_evento, motor, quadro, arquivos, relogio>>

RegistrarEventoMelhorado(tipo, origem, destino) ==
    LET r == registrar_evento_melhorado(arestas, velocidades, raiz, total_eventos,
                                        proximo_id_evento, relogio, tipo, origem, destino)
    IN  /\ motor = Melhorado
        /\ proximo_id_evento <= MaxEventos
        /\ arestas' = r.arestas
        /\ velocidades' = r.velocidades
        /\ raiz' = r.raiz
        /\ total_eventos' = r.total_eventos
        /\ proximo_id_evento' = r.proximo_id_evento
        /\ chamada' = [op |-> "registrar_evento", tipo |-> tipo,
                        origem |-> origem, destino |-> destino,
                        id |-> proximo_id_evento, arestas_antes |-> arestas,
                        velocidades_antes |-> velocidades, ret |-> r.ret]
        /\ UNCHANGED <<vertices, pesos_originais, motor, quadro, arquivos, relogio>>

RemoverEventoMelhorado(id_evento) ==
    LET r == remover_evento_melhorado(arestas, velocidades, raiz, total_eventos, id_evento)
    IN  /\ motor = Melhorado
        /\ arestas' = r.arestas
        /\ velocidades' = r.velocidades
        /\ raiz' = r.raiz
        /\ total_eventos' = r.total_eventos
        /\ chamada' = [op |-> "remover_evento", id |-> id_evento, ret |-> r.ret]
        /\ UNCHANGED <<vertices, pesos_originais, proximo_id_evento, motor, quadro, arquivos, relogio>>

CompararRotasMelhorado(origem, destino) ==
    LET r == comparar_rotas_melhorado(vertices, arestas, pesos_originais, velocidades,
                                      origem, destino)
    IN  /\ motor = Melhorado
        /\ arestas' = r.arestas
        /\ velocidades' = r.velocidades
        /\ chamada' = [op |-> "comparar_rotas", origem |-> origem, destino |-> destino,
                        ret |-> r.ret]
        /\ UNCHANGED <<vertices, pesos_originais, avlVars, proximo_id_evento, motor, quadro, arquivos, relogio>>

-----------------------------------------------------------------------------
(* Reads of an engine, and comparar_rotas of SistemaTransito statement by
   statement.  The method takes no lock: calls made by other threads on the
   same engine can run between its statements. *)

\* a route computed once on the weights of construction and served ever after
calcular_rota_otima_desatualizada(V, A, origem, destino) ==
    CHOOSE res \in
        {IF d.caminho = SemCaminho
             THEN [caminho |-> SemCaminho, distancia |-> Nil,
                   status |-> "Nao ha rota disponivel"]
             ELSE [caminho |-> d.caminho, distancia |-> d.distancia, status |-> "OK"]
         : d \in {dijkstra(V, pesos_originais, origem, destino)}} : TRUE

\* the tuple (caminho, distancia, status)
calcular_rota_otima(V, A, origem, destino) ==
    CHOOSE res \in
        {IF d.caminho = SemCaminho
             THEN [caminho |-> SemCaminho, distancia |-> Nil,
                   status |-> "Nao ha rota disponivel"]
             ELSE [caminho |-> d.caminho, distancia |-> d.distancia, status |-> "OK"]
         : d \in {dijkstra(V, A, origem, destino)}} : TRUE

ObterPeso(origem, destino) ==
    /\ chamada' = [op |-> "obter_peso", origem |-> origem, destino |-> destino,
                    ret |-> obter_peso(arestas, origem, destino)]
    /\ UNCHANGED <<grafoVars, avlVars, motorVars>>

CalcularRotaOtima(origem, destino) ==
    /\ motor = Basico
    /\ chamada' = [op |-> "calcular_rota_otima", origem |-> origem, destino |-> destino,
                    ret |-> calcular_rota_otima(vertices, arestas, origem, destino)]
    /\ UNCHANGED <<grafoVars, avlVars, motorVars>>

\* the incidents whose localizacao is a segment of the path, in the
\* direction the path takes it
RECURSIVE eventos_na_rota(_, _)
eventos_na_rota(r, caminho) ==
    IF Len(caminho) < 2 THEN <<>>
    ELSE buscar_por_localizacao(r, <<caminho[1], caminho[2]>>)
         \o eventos_na_rota(r, Tail(caminho))

EventosNaRota(caminho) ==
    /\ motor = Basico
    /\ chamada' = [op |-> "eventos_na_rota", caminho |-> caminho,
                    ret |-> eventos_na_rota(raiz, caminho)]
    /\ UNCHANGED <<grafoVars, avlVars, motorVars>>

\* no comparar_rotas call is in progress
SemQuadro == [pc |-> "ocioso"]

\* lines 133-137: pesos_temp is filled
CompararSalvar(origem, destino) ==
    /\ motor = Basico
    /\ quadro.pc = "ocioso"
    /\ quadro' = [pc |-> "salvo", origem |-> origem, destino |-> destino,
                   pesos_temp |-> arestas]
    /\ UNCHANGED <<grafoVars, avlVars, proximo_id_evento, velocidades, motor, relogio,
                   chamada, arquivos>>

\* lines 139-143: the baseline weights are written into the graph
CompararSubstituir ==
    /\ quadro.pc = "salvo"
    /\ arestas' = _restaurar_originais(arestas, pesos_originais)
    /\ quadro' = [quadro EXCEPT !.pc = "substituido"]
    /\ UNCHANGED <<vertices, pesos_originais, avlVars, proximo_id_evento, velocidades,
                   motor, relogio, chamada, arquivos>>

\* line 146
CompararRotaIdeal ==
    /\ quadro.pc = "substituido"
    /\ quadro' = [pc |-> "ideal", origem |-> quadro.origem, destino |-> quadro.destino,
                   pesos_temp |-> quadro.pesos_temp,
                   ideal |-> dijkstra(vertices, arestas, quadro.origem, quadro.destino)]
    /\ UNCHANGED <<grafoVars, avlVars, proximo_id_evento, velocidades, motor, relogio,
                   chamada, arquivos>>

\* lines 148-152: the saved weights are written back
CompararRestaurar ==
    /\ quadro.pc = "ideal"
    /\ arestas' = _restaurar_atuais(arestas, quadro.pesos_temp)
    /\ quadro' = [quadro EXCEPT !.pc = "restaurado"]
    /\ UNCHANGED <<vertices, pesos_originais, avlVars, proximo_id_evento, velocidades,
                   motor, relogio, chamada, arquivos>>

\* lines 155-161
CompararRetornar ==
    /\ quadro.pc = "restaurado"
    /\ \E atual \in {dijkstra(vertices, arestas, quadro.origem, quadro.destino)} :
          chamada' = [op |-> "comparar_rotas", origem |-> quadro.origem,
                      destino |-> quadro.destino,
                      ret |-> [rota_ideal |-> quadro.ideal, rota_atual |-> atual,
                               impacto |-> IF quadro.ideal.distancia # Inf
                                               THEN atual.distancia - quadro.ideal.distancia
                                               ELSE 0]]
    /\ quadro' = SemQuadro
    /\ UNCHANGED <<grafoVars, avlVars, proximo_id_evento, velocidades, motor, relogio,
                 arquivos>>

-----------------------------------------------------------------------------
(* Construction *)

SemChamada == [op |-> "init"]

\* neither dados/grafo.txt nor dados/eventos.txt exists
SemArquivos == [grafo |-> Nil, eventos |-> Nil]

InitEstruturas ==
    /\ vertices = {}
    /\ arestas = DictVazio
    /\ pesos_originais = DictVazio
    /\ raiz = Nil
    /\ total_eventos = 0
    /\ velocidades = DictVazio
    /\ proximo_id_evento = 1
    /\ relogio = 1
    /\ chamada = SemChamada
    /\ quadro = SemQuadro
    /\ arquivos = SemArquivos

\* an ArvoreAVL used on its own, as teste_avl does
InitAVL == InitEstruturas /\ motor = "nenhum"

NextAVL ==
    \/ \E id \in Ids, ts \in Timestamps : Inserir(id, ts, "teste", <<"X", "Y">>, 1)
    \/ \E id \in Ids : Remover(id)
    \/ \E id \in Ids : Buscar(id)

SpecAVL == InitAVL /\ [][NextAVL]_vars

\* a GrafoPonderado used on its own, as teste_grafo does
Pesos == 0..MaxPeso
ParesGrafo == {p \in Vertices \X Vertices : Ordem[p[1]] < Ordem[p[2]]}
              \cup {<<"B", "A">>, <<"A", "A">>}

InitGrafo == InitEstruturas /\ motor = "nenhum"

NextGrafo ==
    \/ \E v \in Vertices : AdicionarVertice(v)
    \/ \E p \in ParesGrafo, w \in Pesos : AdicionarAresta(p[1], p[2], w)
    \/ \E p \in ParesGrafo : RemoverAresta(p[1], p[2])
    \/ \E o \in Vertices, d \in Vertices : Dijkstra(o, d)

SpecGrafo == InitGrafo /\ [][NextGrafo]_vars

\* an engine over an empty graph and an empty tree.  The roads offered are
\* the triangle of teste_integracao (A-B 5, B-C 3, A-C 10) with a second,
\* zero-weight choice for A-B; the incidents offered are its accident of
\* impact 10 on A-B and two more.
MalhaBasico == {<<"A", "B", 5>>, <<"A", "B", 0>>, <<"B", "C", 3>>, <<"A", "C", 10>>}
IncidentesBasico == {<<"acidente", "A", "B", 10>>, <<"obra", "B", "A", 3>>,
                     <<"congestionamento", "B", "C", 10>>}

\* the roads of the speed model: a direct road A-C of 5 km and a detour over
\* B of 4 + 4 km, at the default speed or slower
MalhaMelhorado == {<<"A", "C", 5, 60>>, <<"A", "B", 4, 60>>, <<"A", "B", 4, 30>>,
                   <<"B", "C", 4, 60>>, <<"B", "C", 4, 6>>}
IncidentesMelhorado == {<<"acidente", "A", "C">>, <<"obra", "A", "B">>,
                        <<"engarrafamento", "B", "A">>, <<"greve", "A", "C">>}

\* the routes asked for
ParesRota == {<<"A", "C">>, <<"C", "A">>, <<"A", "B">>}

Init == InitEstruturas /\ motor \in {Basico, Melhorado}

Next ==
    \/ Tique
    \/ \E a \in MalhaBasico : AdicionarArestaMotor(a[1], a[2], a[3])
    \/ \E e \in IncidentesBasico : RegistrarEvento(e[1], e[2], e[3], e[4])
    \/ \E id \in 1..MaxEventos : RemoverEvento(id)
    \/ \E p \in ParesRota : CompararRotas(p[1], p[2])
    \/ \E a \in MalhaMelhorado : AdicionarVia(a[1], a[2], a[3], a[4])
    \/ \E e \in IncidentesMelhorado : RegistrarEventoMelhorado(e[1], e[2], e[3])
    \/ \E id \in 1..MaxEventos : RemoverEventoMelhorado(id)
    \/ \E p \in ParesRota : CompararRotasMelhorado(p[1], p[2])

Spec == Init /\ [][Next]_vars

\* a SistemaTransito shared by a thread that compares routes and threads that
\* read weights, ask for routes and register incidents, on the triangle of
\* teste_integracao with its accident on A-B and its route from A to C
MalhaConcorrente == {<<"A", "B", 5>>, <<"B", "C", 3>>, <<"A", "C", 10>>}
IncidentesConcorrente == {<<"acidente", "A", "B", 10>>}
ParesConcorrente == {<<"A", "C">>}

InitConcorrente == InitEstruturas /\ motor = Basico

NextConcorrente ==
    \/ \E a \in MalhaConcorrente : AdicionarArestaMotor(a[1], a[2], a[3])
    \/ \E e \in IncidentesConcorrente : RegistrarEvento(e[1], e[2], e[3], e[4])
    \/ \E p \in ParesConcorrente : CalcularRotaOtima(p[1], p[2])
    \/ \E e \in IncidentesConcorrente : ObterPeso(e[2], e[3])
    \/ \E p \in ParesConcorrente : CompararSalvar(p[1], p[2])
    \/ CompararSubstituir
    \/ CompararRotaIdeal
    \/ CompararRestaurar
    \/ CompararRetornar

SpecConcorrente == InitConcorrente /\ [][NextConcorrente]_vars

\* any sequence of calls on one object: an ArvoreAVL on its own, the graph of
\* five vertices that teste_grafo and the module's own demonstration build,
\* or a SistemaTransito together with its graph
Arvore == "ArvoreAVL"
Grafo == "GrafoPonderado"

\* the edges of the demonstration of grafo_ponderado.py with C-E = 7 added,
\* and the edges of teste_grafo
MalhaCinco == << <<"A", "B", 5>>, <<"A", "C", 3>>, <<"B", "C", 2>>, <<"B", "D", 6>>,
                 <<"C", "D", 4>>, <<"C", "E", 7>>, <<"D", "E", 2>> >>
MalhaTesteGrafo == << <<"A", "B", 4>>, <<"A", "C", 2>>, <<"B", "C", 1>>, <<"B", "D", 5>>,
                      <<"C", "D", 8>>, <<"C", "E", 10>>, <<"D", "E", 2>> >>

GrafoVazio == [vertices |-> {}, arestas |-> DictVazio, pesos_originais |-> DictVazio,
               ret |-> TRUE]

\* the graph after adicionar_aresta of every edge of the list, in order
RECURSIVE Construir(_, _)
Construir(g, lista) ==
    IF lista = <<>> THEN g
    ELSE Construir(adicionar_aresta(g.vertices, g.arestas, g.pesos_originais,
                                    lista[1][1], lista[1][2], lista[1][3]),
                   Tail(lista))

\* the weight writes, edge removals and routes of teste_grafo, and a write
\* on a pair that is no edge
AtualizacoesGrafo == {<<"A", "C", 10>>, <<"A", "E", 1>>}
RemocoesGrafo == {<<"D", "E">>}
RotasGrafo == {<<"A", "E">>}

\* the same on the graph of an engine
AtualizacoesMotor == {<<"A", "B", 7>>, <<"A", "D", 1>>}
RemocoesMotor == {<<"B", "A">>}
CaminhosMotor == {<<"A", "B", "C">>, <<"A">>}

InitChamadas ==
    \/ InitEstruturas /\ motor \in {Arvore, Basico}
    \/ \E lista \in {MalhaCinco, MalhaTesteGrafo} :
          /\ motor = Grafo
          /\ vertices = Construir(GrafoVazio, lista).vertices
          /\ arestas = Construir(GrafoVazio, lista).arestas
          /\ pesos_originais = Construir(GrafoVazio, lista).pesos_originais
          /\ raiz = Nil
          /\ total_eventos = 0
          /\ velocidades = DictVazio
          /\ proximo_id_evento = 1
          /\ relogio = 1
          /\ chamada = SemChamada
          /\ quadro = SemQuadro
          /\ arquivos = SemArquivos

NextChamadas ==
    \/ motor = Arvore /\ \E id \in Ids, ts \in Timestamps :
                             Inserir(id, ts, "teste", <<"X", "Y">>, 1)
    \/ motor = Arvore /\ \E id \in Ids : Remover(id)
    \/ motor = Grafo /\ \E a \in AtualizacoesGrafo : AtualizarPeso(a[1], a[2], a[3])
    \/ motor = Grafo /\ \E p \in RemocoesGrafo : RemoverAresta(p[1], p[2])
    \/ motor = Grafo /\ \E p \in RotasGrafo : Dijkstra(p[1], p[2])
    \/ \E a \in MalhaBasico : AdicionarArestaMotor(a[1], a[2], a[3])
    \/ motor = Basico /\ \E a \in AtualizacoesMotor : AtualizarPeso(a[1], a[2], a[3])
    \/ motor = Basico /\ \E p \in RemocoesMotor : RemoverAresta(p[1], p[2])
    \/ \E e \in IncidentesBasico : RegistrarEvento(e[1], e[2], e[3], e[4])
    \/ \E id \in 1..(MaxEventos + 1) : RemoverEvento(id)
    \/ \E p \in ParesRota : CompararRotas(p[1], p[2])
    \/ \E p \in ParesRota : CalcularRotaOtima(p[1], p[2])
    \/ \E c \in CaminhosMotor : EventosNaRota(c)
    \/ motor = Basico /\ Tique

SpecChamadas == InitChamadas /\ [][NextChamadas]_vars

\* A SistemaTransito offered the inputs at the edge of the domain of floats:
\* a road of weight 0, a road of weight float('inf'), an impact of 0 and a
\* negative impact.  inf + 0 = inf is exact in the model; no impact other
\* than 0 is offered on the road that may weigh inf.
MalhaLimites == {<<"A", "B", Inf>>, <<"A", "B", 0>>, <<"B", "C", 3>>, <<"C", "D", 2>>}
IncidentesLimites == {<<"obra", "A", "B", 0>>, <<"acidente", "B", "C", 0 - 2>>,
                      <<"acidente", "B", "C", 4>>}
ParesLimites == {<<"A", "C">>, <<"A", "B">>, <<"A", "D">>}

InitLimites == InitEstruturas /\ motor = Basico

NextLimites ==
    \/ \E a \in MalhaLimites : AdicionarArestaMotor(a[1], a[2], a[3])
    \/ \E e \in IncidentesLimites : RegistrarEvento(e[1], e[2], e[3], e[4])
    \/ \E p \in ParesLimites : Dijkstra(p[1], p[2])
    \/ \E p \in ParesLimites : CalcularRotaOtima(p[1], p[2])

SpecLimites == InitLimites /\ [][NextLimites]_vars

\* A SistemaTransito whose index is driven by registrar_evento and
\* remover_evento only, on one road, with the clock of time.time()
MalhaIndice == {<<"A", "B", 5>>}
IncidentesIndice == {<<"acidente", "A", "B", 1>>}

InitIndice == InitEstruturas /\ motor = Basico

NextIndice ==
    \/ Tique
    \/ \E a \in MalhaIndice : AdicionarArestaMotor(a[1], a[2], a[3])
    \/ \E e \in IncidentesIndice : RegistrarEventoAte(MaxRegistros, e[1], e[2], e[3], e[4])
    \/ \E id \in 1..(MaxRegistros + 1) : RemoverEvento(id)
    \/ \E id \in 1..(MaxRegistros + 1) : Buscar(id)

SpecIndice == InitIndice /\ [][NextIndice]_vars

\* A SistemaTransito that saves and loads.  The files found at the start are
\* absent, or were written by hand: a network file whose second edge line
\* lacks its weight, and an incident file whose second line breaks off
\* after the tipo.
MalhaArquivos == {<<"A", "B", 5>>, <<"A", "B", 0>>}
IncidentesArquivos == {<<"obra", "A", "B", 3>>}
VerticesArquivos == {"D"}

GrafoTruncado ==
    [n_vertices |-> 3, vertices |-> <<"A", "B", "C">>, n_arestas |-> 2,
     linhas |-> << <<"A", "B", <<5>>>>, <<"B", "C">> >>]
GrafoInteiro ==
    [n_vertices |-> 2, vertices |-> <<"A", "B">>, n_arestas |-> 1,
     linhas |-> << <<"A", "B", <<5>>>> >>]
EventosTruncados ==
    [n_eventos |-> 2,
     linhas |-> << <<1, 1, "obra", <<"A", "B">>, 3>>, <<2, 1, "obra">> >>]

ArquivosIniciais ==
    {SemArquivos,
     [grafo |-> GrafoTruncado, eventos |-> Nil],
     [grafo |-> GrafoInteiro, eventos |-> EventosTruncados]}

InitArquivos ==
    /\ vertices = {}
    /\ arestas = DictVazio
    /\ pesos_originais = DictVazio
    /\ raiz = Nil
    /\ total_eventos = 0
    /\ velocidades = DictVazio
    /\ proximo_id_evento = 1
    /\ relogio = 1
    /\ chamada = SemChamada
    /\ quadro = SemQuadro
    /\ motor = Basico
    /\ arquivos \in ArquivosIniciais

NextArquivos ==
    \/ \E v \in VerticesArquivos : AdicionarVertice(v)
    \/ \E a \in MalhaArquivos : AdicionarArestaMotor(a[1], a[2], a[3])
    \/ \E e \in IncidentesArquivos :
           /\ total_eventos < MaxNosArquivos
           /\ \A k \in DOMAIN arestas : arestas[k] <= MaxPesoArquivos
           /\ RegistrarEvento(e[1], e[2], e[3], e[4])
    \/ \E id \in 1..MaxEventos : RemoverEvento(id)
    \/ SalvarDados
    \/ \E novo \in BOOLEAN : CarregarDados(novo)

SpecArquivos == InitArquivos /\ [][NextArquivos]_vars

\* A SistemaTransito on the triangle of teste_integracao whose graph is also
\* written directly, as teste_grafo writes it: atualizar_peso above and below
\* the baseline of A-B, and remover_aresta.
MalhaComparar == {<<"A", "B", 5>>, <<"B", "C", 3>>, <<"A", "C", 10>>}
IncidentesComparar == {<<"acidente", "A", "B", 10>>, <<"obra", "B", "C", 3>>}
AtualizacoesComparar == {<<"A", "B", 1>>, <<"A", "B", 7>>}
RemocoesComparar == {<<"B", "A">>}
ParesComparar == {<<"A", "C">>, <<"C", "B">>}

InitComparar == InitEstruturas /\ motor = Basico

NextComparar ==
    \/ \E a \in MalhaComparar : AdicionarArestaMotor(a[1], a[2], a[3])
    \/ \E a \in AtualizacoesComparar : AtualizarPeso(a[1], a[2], a[3])
    \/ \E p \in RemocoesComparar : RemoverAresta(p[1], p[2])
    \/ \E e \in IncidentesComparar : RegistrarEvento(e[1], e[2], e[3], e[4])
    \/ \E id \in 1..MaxEventos : RemoverEvento(id)
    \/ \E p \in ParesComparar : CompararRotas(p[1], p[2])

SpecComparar == InitComparar /\ [][NextComparar]_vars

\* A SistemaTransitoMelhorado on two networks between A and C.  On the first
\* the route over B (1 + 1 km) is the ideal one and the route over D
\* (2 + 2 km) takes as long as it once an 'obra' slows A-B down to 3 min.  On
\* the second the direct road of 6 km is driven at 120 km/h, twice the
\* default speed, and the route over B is 2 + 2 km.
MalhaDesvio == {<<"A", "B", 1, 60>>, <<"B", "C", 1, 60>>, <<"A", "D", 2, 60>>,
                <<"D", "C", 2, 60>>}
MalhaVeloz == {<<"A", "C", 6, 120>>, <<"A", "B", 2, 60>>, <<"B", "C", 2, 60>>}
IncidentesDesvio == {<<"obra", "A", "B">>, <<"acidente", "A", "C">>}
ParesDesvio == {<<"A", "C">>}

InitDesvio == InitEstruturas /\ motor = Melhorado

NextDesvio ==
    \/ \E a \in MalhaDesvio \cup MalhaVeloz : AdicionarVia(a[1], a[2], a[3], a[4])
    \/ \E e \in IncidentesDesvio : RegistrarEventoMelhorado(e[1], e[2], e[3])
    \/ \E id \in 1..MaxEventos : RemoverEventoMelhorado(id)
    \/ \E p \in ParesDesvio : CompararRotasMelhorado(p[1], p[2])

SpecDesvio == InitDesvio /\ [][NextDesvio]_vars

\* An engine of either kind whose roads are also removed from its graph
MalhaVias == {<<"A", "B", 5>>, <<"B", "C", 3>>}
ViasVias == {<<"A", "B", 5, 60>>, <<"B", "C", 3, 60>>}
RemocoesVias == {<<"A", "B">>, <<"C", "B">>}
IncidentesVias == {<<"acidente", "A", "B", 10>>, <<"obra", "B", "C", 3>>}

InitVias == InitEstruturas /\ motor \in {Basico, Melhorado}

NextVias ==
    \/ Tique
    \/ \E a \in MalhaVias : AdicionarArestaMotor(a[1], a[2], a[3])
    \/ \E a \in ViasVias : AdicionarVia(a[1], a[2], a[3], a[4])
    \/ \E p \in RemocoesVias : RemoverAresta(p[1], p[2])
    \/ \E e \in IncidentesVias : RegistrarEvento(e[1], e[2], e[3], e[4])
    \/ \E e \in IncidentesVias : RegistrarEventoMelhorado(e[1], e[2], e[3])
    \/ \E id \in 1..MaxEventos : RemoverEvento(id)
    \/ \E id \in 1..MaxEventos : RemoverEventoMelhorado(id)

SpecVias == InitVias /\ [][NextVias]_vars

\* A SistemaTransito whose incidents age: the clock advances between the
\* calls, the engine is saved and loaded as in teste_persistencia, and the
\* old incidents are cleared.
MalhaExpirar == {<<"A", "B", 5>>}
IncidentesExpirar == {<<"obra", "A", "B", 3>>}
TemposDeExpiracao == 0..(MaxRelogio - 2)

InitExpirar == InitEstruturas /\ motor = Basico

NextExpirar ==
    \/ Tique
    \/ \E a \in MalhaExpirar : AdicionarArestaMotor(a[1], a[2], a[3])
    \/ \E e \in IncidentesExpirar :
           /\ total_eventos < MaxNosExpirar
           /\ RegistrarEvento(e[1], e[2], e[3], e[4])
    \/ \E id \in 1..MaxEventos : RemoverEvento(id)
    \/ SalvarDados
    \/ /\ total_eventos < MaxNosExpirar
       /\ CarregarDados(FALSE)
    \/ \E T \in TemposDeExpiracao : LimparEventosExpirados(T)

SpecExpirar == InitExpirar /\ [][NextExpirar]_vars

\* dijkstra of a GrafoPonderado, one iteration of its main loop at a time.
\* The call is synchronous: the graph is written between the calls only.
\* The roads offered have weight 0 on A-B, B-C and on the loop A-A.

\* lines 127-134: distancias, predecessores, visitados and fila at the start
_dijkstra_inicial(V, origem) ==
    [distancias |-> [v \in V |-> IF v = origem THEN 0 ELSE Inf],
     predecessores |-> [v \in V |-> SemVertice],
     visitados |-> {},
     fila |-> {<<0, origem>>},
     parou |-> FALSE]

\* lines 124-134: the return for an unknown vertex, or the initialisation
DijkstraInicio(origem, destino) ==
    /\ quadro.pc = "ocioso"
    /\ IF origem \notin vertices \/ destino \notin vertices
           THEN /\ chamada' = [op |-> "dijkstra", origem |-> origem,
                                destino |-> destino,
                                ret |-> [caminho |-> SemCaminho, distancia |-> Inf]]
                /\ quadro' = quadro
           ELSE /\ chamada' = chamada
                /\ quadro' = [pc |-> "laco", origem |-> origem, destino |-> destino,
                               st |-> _dijkstra_inicial(vertices, origem)]
    /\ UNCHANGED <<grafoVars, avlVars, proximo_id_evento, velocidades, motor, relogio,
                   arquivos>>

\* lines 136-158: one pass of `while fila`
DijkstraIteracao ==
    /\ quadro.pc = "laco"
    /\ quadro.st.fila # {}
    /\ ~quadro.st.parou
    /\ quadro' = [quadro EXCEPT
                      !.st = _dijkstra_iteracao(arestas, quadro.destino, quadro.st)]
    /\ UNCHANGED <<grafoVars, avlVars, proximo_id_evento, velocidades, motor, relogio,
                   arquivos, chamada>>

\* lines 160-173: the loop has ended, the path is rebuilt and returned
DijkstraRetorno ==
    /\ quadro.pc = "laco"
    /\ quadro.st.fila = {} \/ quadro.st.parou
    /\ LET caminho == _reconstruir(quadro.st.predecessores, quadro.destino)
       IN  chamada' = [op |-> "dijkstra", origem |-> quadro.origem,
                       destino |-> quadro.destino,
                       ret |-> IF Len(caminho) = 1 /\ caminho[1] # quadro.origem
                                   THEN [caminho |-> SemCaminho, distancia |-> Inf]
                                   ELSE [caminho |-> caminho,
                                         distancia |->
                                             quadro.st.distancias[quadro.destino]]]
    /\ quadro' = SemQuadro
    /\ UNCHANGED <<grafoVars, avlVars, proximo_id_evento, velocidades, motor, relogio,
                   arquivos>>

MalhaDijkstra == {<<"A", "B", 0>>, <<"B", "C", 0>>, <<"A", "C", 1>>, <<"C", "D", 2>>,
                  <<"A", "A", 0>>, <<"A", "B", 3>>}
VerticesDijkstra == {"D"}
ParesDijkstra == {<<"A", "C">>, <<"C", "A">>, <<"A", "D">>, <<"D", "A">>, <<"B", "B">>}

InitDijkstra == InitEstruturas /\ motor = "nenhum"

NextDijkstra ==
    \/ \E v \in VerticesDijkstra : quadro.pc = "ocioso" /\ AdicionarVertice(v)
    \/ \E a \in MalhaDijkstra :
           quadro.pc = "ocioso" /\ AdicionarAresta(a[1], a[2], a[3])
    \/ \E p \in ParesDijkstra : DijkstraInicio(p[1], p[2])
    \/ DijkstraIteracao
    \/ DijkstraRetorno

SpecDijkstra == InitDijkstra /\ [][NextDijkstra]_vars

\* a call of dijkstra that has started goes on running: the method has no
\* wait in it
SpecDijkstraJusta ==
    SpecDijkstra /\ WF_vars(DijkstraIteracao) /\ WF_vars(DijkstraRetorno)

-----------------------------------------------------------------------------
(* Properties of ArvoreAVL, checked under SpecAVL *)

RECURSIVE AlturaReal(_)
AlturaReal(no) ==
    IF no = Nil THEN 0 ELSE 1 + Max(AlturaReal(no.esquerda), AlturaReal(no.direita))

RECURSIVE Balanceada(_)
Balanceada(no) ==
    \/ no = Nil
    \/ /\ AlturaReal(no.esquerda) - AlturaReal(no.direita) \in {-1, 0, 1}
       /\ Balanceada(no.esquerda)
       /\ Balanceada(no.direita)

\* the fewest nodes an AVL tree of height h can have
RECURSIVE NosMinimos(_)
NosMinimos(h) == IF h <= 0 THEN 0 ELSE IF h = 1 THEN 1
                 ELSE 1 + NosMinimos(h - 1) + NosMinimos(h - 2)

IdsDe(r) == {listar_todos(r)[i].id : i \in 1..Len(listar_todos(r))}

IdsDistintos(r) == Cardinality(IdsDe(r)) = Len(listar_todos(r))

\* the list l without the records whose id is id_evento
SemId(l, id_evento) == SelectSeq(l, LAMBDA reg : reg.id # id_evento)

\* the node that navigation by id reaches, with its depth (1 = raiz)
RECURSIVE ProfundidadePorId(_, _)
ProfundidadePorId(no, id_evento) ==
    IF no = Nil THEN 0
    ELSE IF no.id = id_evento THEN 1
    ELSE LET p == IF id_evento < no.id THEN ProfundidadePorId(no.esquerda, id_evento)
                  ELSE ProfundidadePorId(no.direita, id_evento)
         IN  IF p = 0 THEN 0 ELSE p + 1

\* C3: after every inserir and every remover, the real heights of the two
\* subtrees of every node differ by at most 1, so a tree of height h has at
\* least the AVL minimum of nodes for h.
C3_Balanceada ==
    /\ Balanceada(raiz)
    /\ NosMinimos(AlturaReal(raiz)) <= Len(listar_todos(raiz))

\* a removal of a leaf at depth 2 of a four-node tree: the root is left with
\* subtrees of heights 0 and 2 and has to be rotated
C3_Witness ==
    /\ chamada.op = "remover"
    /\ chamada.ret = TRUE
    /\ Len(listar_todos(chamada.antes)) = 4
    /\ ProfundidadePorId(chamada.antes, chamada.id) = 2
    /\ buscar(chamada.antes, chamada.id).esquerda = Nil
    /\ buscar(chamada.antes, chamada.id).direita = Nil
    /\ AlturaReal(raiz) = 2

\* C4: listar_todos() is in non-decreasing order of timestamp in every
\* reachable state.
C4_Ordenada ==
    \A i \in 1..(Len(listar_todos(raiz)) - 1) :
        listar_todos(raiz)[i].timestamp <= listar_todos(raiz)[i + 1].timestamp

\* a removal of a node with two children, in a tree with distinct timestamps
C4_Witness ==
    /\ chamada.op = "remover"
    /\ chamada.ret = TRUE
    /\ buscar(chamada.antes, chamada.id).esquerda # Nil
    /\ buscar(chamada.antes, chamada.id).direita # Nil
    /\ Len(listar_todos(raiz)) = 3
    /\ listar_todos(raiz)[1].timestamp < listar_todos(raiz)[2].timestamp
    /\ listar_todos(raiz)[2].timestamp < listar_todos(raiz)[3].timestamp

\* C5: with pairwise distinct ids in the tree, buscar(id) returns the node
\* carrying that id for every id in the tree and None for every other id.
C5_BuscarPorId ==
    (chamada.op = "buscar" /\ IdsDistintos(raiz)) =>
        IF chamada.id \in IdsDe(raiz)
            THEN chamada.ret # Nil /\ chamada.ret.id = chamada.id
            ELSE chamada.ret = Nil

\* C6: with pairwise distinct ids, remover(id) of an id in the tree returns
\* True and leaves exactly the previous records minus the one with that id.
C6_RemoverPorId ==
    (/\ chamada.op = "remover"
     /\ IdsDistintos(chamada.antes)
     /\ chamada.id \in IdsDe(chamada.antes)) =>
        /\ chamada.ret = TRUE
        /\ Registros(raiz) = SemId(Registros(chamada.antes), chamada.id)

\* C7: total_eventos equals the number of nodes reachable from raiz.
C7_TotalEventos == total_eventos = Len(listar_todos(raiz))

-----------------------------------------------------------------------------
(* Properties of GrafoPonderado, checked under SpecGrafo *)

Min(S) == CHOOSE x \in S : \A y \in S : x <= y

\* the least cost of a walk of at most k edges from origem to each vertex
RECURSIVE CustoAte(_, _, _, _)
CustoAte(V, A, origem, k) ==
    IF k = 0 THEN [v \in V |-> IF v = origem THEN 0 ELSE Inf]
    ELSE LET ant == CustoAte(V, A, origem, k - 1)
         IN  [v \in V |-> Min({ant[v]} \cup
                               {ant[u] + A[<<u, v>>] :
                                   u \in {x \in V : ant[x] < Inf /\ <<x, v>> \in DOMAIN A}})]

\* the minimum over all paths from origem to destino, Inf when there is none
CustoMinimo(V, A, origem, destino) == CustoAte(V, A, origem, Cardinality(V))[destino]

RECURSIVE SomaPesos(_, _)
SomaPesos(A, caminho) ==
    IF Len(caminho) < 2 THEN 0
    ELSE A[<<caminho[1], caminho[2]>>] + SomaPesos(A, Tail(caminho))

PesosNaoNegativos(A) == \A k \in DOMAIN A : A[k] >= 0

\* C1: with non-negative weights and d reachable from s, dijkstra(s, d)
\* returns a path from s to d over existing edges whose cost is the sum of
\* the current weights along it and the minimum over all paths from s to d.
C1_Dijkstra ==
    (/\ chamada.op = "dijkstra"
     /\ PesosNaoNegativos(arestas)
     /\ chamada.origem \in vertices
     /\ chamada.destino \in vertices) =>
        LET c == chamada.ret.caminho
            minimo == CustoMinimo(vertices, arestas, chamada.origem, chamada.destino)
        IN  minimo < Inf =>
            /\ c # SemCaminho
            /\ c[1] = chamada.origem
            /\ c[Len(c)] = chamada.destino
            /\ \A i \in 1..(Len(c) - 1) : ExisteAresta(arestas, c[i], c[i + 1])
            /\ chamada.ret.distancia = SomaPesos(arestas, c)
            /\ chamada.ret.distancia = minimo
            /\ (chamada.origem = chamada.destino =>
                   c = <<chamada.origem>> /\ chamada.ret.distancia = 0)

\* a route of two edges that is cheaper than the direct edge
C1_Witness ==
    /\ chamada.op = "dijkstra"
    /\ Len(chamada.ret.caminho) = 3
    /\ ExisteAresta(arestas, chamada.origem, chamada.destino)
    /\ chamada.ret.distancia < arestas[<<chamada.origem, chamada.destino>>]

-----------------------------------------------------------------------------
(* Properties of the engines, checked under Spec *)

\* the sum of the impacts of the incidents of the list l located on the
\* edge {k[1], k[2]}
RECURSIVE SomaImpactos(_, _)
SomaImpactos(l, k) ==
    IF l = <<>> THEN 0
    ELSE (IF Head(l).localizacao \in {k, <<k[2], k[1]>>} THEN Head(l).impacto ELSE 0)
         + SomaImpactos(Tail(l), k)

\* C2: in SistemaTransito every edge has current weight = baseline weight +
\* the sum of the impacts of the incidents in the index located on it.
C2_PesoAditivo ==
    motor = Basico =>
        \A k \in DOMAIN arestas :
            /\ k \in DOMAIN pesos_originais
            /\ arestas[k] = pesos_originais[k] + SomaImpactos(listar_todos(raiz), k)

\* the step is a remover_evento of the id that the call before it, a
\* successful registrar_evento, assigned
RemoveORegistrado ==
    /\ chamada.op = "registrar_evento"
    /\ chamada.ret = TRUE
    /\ chamada'.op = "remover_evento"
    /\ chamada'.id = chamada.id

\* C8: in SistemaTransito, registrar_evento(tipo, u, v, impacto) followed
\* immediately by remover_evento of its id leaves obter_peso(u, v) and
\* obter_peso(v, u) as they were just before the registration.
C8_IdaEVolta ==
    [][(motor = Basico /\ RemoveORegistrado) =>
          LET u == chamada.origem
              v == chamada.destino
          IN  /\ arestas'[<<u, v>>] = chamada.arestas_antes[<<u, v>>]
              /\ arestas'[<<v, u>>] = chamada.arestas_antes[<<v, u>>]]_vars

\* C9: in SistemaTransitoMelhorado, registrar_evento(tipo, u, v) followed
\* immediately by remover_evento of its id leaves the travel time of the
\* edge and its stored speed as they were just before the registration.
C9_IdaEVoltaMelhorado ==
    [][(motor = Melhorado /\ RemoveORegistrado) =>
          LET u == chamada.origem
              v == chamada.destino
          IN  /\ arestas'[<<u, v>>] = chamada.arestas_antes[<<u, v>>]
              /\ velocidades'[<<u, v>>] = chamada.velocidades_antes[<<u, v>>]]_vars

\* C10: comparar_rotas returns with every edge weight, every speed, the
\* baseline weights, the incident index and proximo_id_evento as they were
\* before the call.
C10_CompararNaoAltera ==
    [][chamada'.op = "comparar_rotas" =>
          /\ arestas' = arestas
          /\ velocidades' = velocidades
          /\ vertices' = vertices
          /\ pesos_originais' = pesos_originais
          /\ raiz' = raiz
          /\ total_eventos' = total_eventos
          /\ proximo_id_evento' = proximo_id_evento]_vars

\* a comparison made while an incident makes the current route more
\* expensive than the ideal one
C10_Witness ==
    /\ motor = Basico
    /\ chamada.op = "comparar_rotas"
    /\ chamada.ret.rota_ideal.caminho # SemCaminho
    /\ chamada.ret.impacto > 0
    /\ total_eventos > 0
    /\ \E k \in DOMAIN arestas : arestas[k] # pesos_originais[k]

\* the same in the speed model, and a comparison that finds no route
C10_WitnessMelhorado ==
    /\ motor = Melhorado
    /\ chamada.op = "comparar_rotas"
    /\ chamada.ret # Nil
    /\ chamada.ret.diferenca_tempo_min > 0
    /\ \E k \in DOMAIN velocidades : velocidades[k] # VELOCIDADE_PADRAO

C10_WitnessSemRota ==
    /\ chamada.op = "comparar_rotas"
    /\ motor = Basico
    /\ chamada.ret.rota_atual.caminho = SemCaminho
    /\ total_eventos > 0

\* the network of the speed-model scenario, seen from a comparison of s with
\* d: a direct road s-d of 5 km whose only incident is an 'acidente' (10 km/h,
\* 30 min) and a detour s-b-d of 8 km at 60 km/h (8 min), free of incidents
CenarioDesvio(s, d) ==
    /\ ExisteAresta(arestas, s, d)
    /\ obter_info_via(arestas, velocidades, s, d)
           = [distancia_km |-> 5, velocidade_kmh |-> 10, tempo_min |-> 30]
    /\ pesos_originais[<<s, d>>] = 5
    /\ Len(listar_todos(raiz)) = 1
    /\ listar_todos(raiz)[1].tipo = "acidente"
    /\ listar_todos(raiz)[1].localizacao \in {<<s, d>>, <<d, s>>}
    /\ \E b \in vertices \ {s, d} :
          /\ DOMAIN arestas = {<<s, d>>, <<d, s>>, <<s, b>>, <<b, s>>, <<b, d>>, <<d, b>>}
          /\ VelocidadeDe(velocidades, s, b) = 60
          /\ VelocidadeDe(velocidades, b, d) = 60
          /\ arestas[<<s, b>>] + arestas[<<b, d>>] = 8

\* C11: on that network comparar_rotas(s, d) reports rota_mudou true,
\* diferenca_distancia_km > 0 and diferenca_tempo_min < 0.
C11_DesvioMaisRapido ==
    (/\ motor = Melhorado
     /\ chamada.op = "comparar_rotas"
     /\ CenarioDesvio(chamada.origem, chamada.destino)) =>
        /\ chamada.ret # Nil
        /\ chamada.ret.rota_mudou
        /\ chamada.ret.diferenca_distancia_km > 0
        /\ chamada.ret.diferenca_tempo_min < 0

-----------------------------------------------------------------------------
(* Properties of an engine shared by several callers, checked under
   SpecConcorrente *)

\* the graph holds the rolled-back weights of the comparison in progress
JanelaRevertida ==
    /\ quadro.pc \in {"substituido", "ideal"}
    /\ arestas = _restaurar_originais(quadro.pesos_temp, pesos_originais)

\* C12: a call that runs between the statements of comparar_rotas neither
\* observes nor overwrites the rolled-back weights: obter_peso and
\* calcular_rota_otima answer from the weights with incidents (the ones the
\* comparison saved), and registrar_evento adds its impact to them.
C12_Atomica ==
    [][(JanelaRevertida /\ quadro' = quadro) =>
          /\ chamada'.op = "obter_peso" =>
                 chamada'.ret = obter_peso(quadro.pesos_temp, chamada'.origem,
                                           chamada'.destino)
          /\ chamada'.op = "calcular_rota_otima" =>
                 chamada'.ret = calcular_rota_otima(vertices, quadro.pesos_temp,
                                                    chamada'.origem, chamada'.destino)
          /\ (chamada'.op = "registrar_evento" /\ chamada'.ret = TRUE) =>
                 arestas'[<<chamada'.origem, chamada'.destino>>]
                     = quadro.pesos_temp[<<chamada'.origem, chamada'.destino>>]
                           + chamada'.impacto]_vars

-----------------------------------------------------------------------------
(* Properties of the calls of SistemaTransito, checked under Spec *)

\* the step is a successful registrar_evento of SistemaTransito
RegistrouEvento ==
    /\ motor = Basico
    /\ chamada' # chamada
    /\ chamada'.op = "registrar_evento"
    /\ chamada'.ret = TRUE

\* the list depois is the list antes with the record reg inserted somewhere
UmRegistroAMais(antes, depois, reg) ==
    /\ Len(depois) = Len(antes) + 1
    /\ \E i \in 1..Len(depois) :
          /\ depois[i] = reg
          /\ SubSeq(depois, 1, i - 1) \o SubSeq(depois, i + 1, Len(depois)) = antes

\* what C13 says of the index and of the counter
IndiceAposRegistro ==
    /\ UmRegistroAMais(Registros(raiz), Registros(raiz'),
                       [id |-> proximo_id_evento, timestamp |-> relogio,
                        tipo |-> chamada'.tipo,
                        localizacao |-> <<chamada'.origem, chamada'.destino>>,
                        impacto |-> chamada'.impacto])
    /\ proximo_id_evento' = proximo_id_evento + 1

\* C13 as stated: after a successful registrar_evento(tipo, u, v, impacto),
\* obter_peso(u, v) = obter_peso(v, u) = obter_peso_original(u, v) + impacto,
\* the index holds exactly one new record, with the id proximo_id_evento had
\* and localizacao u-v, and proximo_id_evento has grown by 1.
C13_PesoOriginalMaisImpacto ==
    [][RegistrouEvento =>
          LET u == chamada'.origem
              v == chamada'.destino
          IN  /\ obter_peso(arestas', u, v)
                     = obter_peso_original(pesos_originais', u, v) + chamada'.impacto
              /\ obter_peso(arestas', v, u) = obter_peso(arestas', u, v)
              /\ IndiceAposRegistro]_vars

\* C13 amended: the same with the weight that (u, v) had just before the
\* call in the place of its baseline weight.
C13_PesoAnteriorMaisImpacto ==
    [][RegistrouEvento =>
          LET u == chamada'.origem
              v == chamada'.destino
          IN  /\ obter_peso(arestas', u, v) = obter_peso(arestas, u, v) + chamada'.impacto
              /\ obter_peso(arestas', v, u) = obter_peso(arestas', u, v)
              /\ IndiceAposRegistro]_vars

\* a second incident was registered on an edge that carried one already
C13_Witness ==
    /\ motor = Basico
    /\ chamada.op = "registrar_evento"
    /\ chamada.ret = TRUE
    /\ Len(listar_todos(raiz)) = 2
    /\ chamada.arestas_antes[<<chamada.origem, chamada.destino>>]
           > pesos_originais[<<chamada.origem, chamada.destino>>]
    /\ arestas[<<chamada.origem, chamada.destino>>]
           = chamada.arestas_antes[<<chamada.origem, chamada.destino>>] + chamada.impacto

\* C14: registrar_evento on a pair that is not an edge of the graph, in
\* either engine, and in SistemaTransitoMelhorado also with a tipo outside
\* its three types, returns failure and leaves the edge weights, the speeds,
\* the baseline weights, the index and proximo_id_evento unchanged.
C14_RegistroRecusado ==
    [][(/\ chamada' # chamada
        /\ chamada'.op = "registrar_evento"
        /\ \/ ~ExisteAresta(arestas, chamada'.origem, chamada'.destino)
           \/ motor = Melhorado /\ chamada'.tipo \notin TiposMelhorado) =>
          /\ chamada'.ret = FALSE
          /\ arestas' = arestas
          /\ velocidades' = velocidades
          /\ pesos_originais' = pesos_originais
          /\ vertices' = vertices
          /\ raiz' = raiz
          /\ total_eventos' = total_eventos
          /\ proximo_id_evento' = proximo_id_evento]_vars

\* a registration on a missing edge was refused by an engine that has
\* edges and an incident
C14_Witness ==
    /\ chamada.op = "registrar_evento"
    /\ chamada.ret = FALSE
    /\ ~ExisteAresta(arestas, chamada.origem, chamada.destino)
    /\ arestas # DictVazio
    /\ raiz # Nil
    /\ chamada.id = proximo_id_evento

\* a registration of an unknown tipo on an existing edge was refused
C14_WitnessTipo ==
    /\ motor = Melhorado
    /\ chamada.op = "registrar_evento"
    /\ chamada.ret = FALSE
    /\ chamada.tipo \notin TiposMelhorado
    /\ ExisteAresta(arestas, chamada.origem, chamada.destino)
    /\ raiz # Nil

-----------------------------------------------------------------------------
(* Properties of any sequence of calls, checked under SpecChamadas *)

\* the step leaves the graph, the tree and the counters as they were
Inalterado ==
    /\ vertices' = vertices
    /\ arestas' = arestas
    /\ pesos_originais' = pesos_originais
    /\ raiz' = raiz
    /\ total_eventos' = total_eventos
    /\ proximo_id_evento' = proximo_id_evento
    /\ velocidades' = velocidades

\* C15: remover_aresta(u, v) of an absent edge, ArvoreAVL.remover(id) and
\* SistemaTransito.remover_evento(id) of an id that no node of the tree
\* carries return False (no exception) and change neither the graph, nor
\* the tree, nor total_eventos.
C15_RemocaoDeAusente ==
    [][chamada' # chamada =>
          /\ (/\ chamada'.op = "remover_aresta"
              /\ ~ExisteAresta(arestas, chamada'.origem, chamada'.destino)) =>
                 chamada'.ret = FALSE /\ Inalterado
          /\ (chamada'.op = "remover" /\ chamada'.id \notin IdsDe(raiz)) =>
                 chamada'.ret = FALSE /\ Inalterado
          /\ (chamada'.op = "remover_evento" /\ chamada'.id \notin IdsDe(raiz)) =>
                 chamada'.ret = FALSE /\ Inalterado]_vars

\* remover of an absent id on a tree of four nodes
C15_Witness ==
    /\ motor = Arvore
    /\ chamada.op = "remover"
    /\ chamada.ret = FALSE
    /\ chamada.id \notin IdsDe(raiz)
    /\ Len(listar_todos(raiz)) = 4

\* remover_aresta of an absent edge, and remover_evento of an absent id on
\* an engine that holds an incident
C15_WitnessAresta ==
    /\ chamada.op = "remover_aresta"
    /\ chamada.ret = FALSE
    /\ ~ExisteAresta(arestas, chamada.origem, chamada.destino)
    /\ arestas # DictVazio

C15_WitnessEvento ==
    /\ motor = Basico
    /\ chamada.op = "remover_evento"
    /\ chamada.ret = FALSE
    /\ chamada.id \notin IdsDe(raiz)
    /\ raiz # Nil

\* the call is dijkstra('A', 'E') on the graph with edges A-B=5, A-C=3,
\* B-C=2, B-D=6, C-D=4, C-E=7, D-E=2
RotaNaMalhaCinco ==
    /\ chamada.op = "dijkstra"
    /\ chamada.origem = "A"
    /\ chamada.destino = "E"
    /\ vertices = {"A", "B", "C", "D", "E"}
    /\ arestas = Construir(GrafoVazio, MalhaCinco).arestas

\* C16 as stated: on that graph dijkstra('A', 'E') returns the path
\* [A, C, B, D, E] with cost 10.
C16_RotaACBDE ==
    RotaNaMalhaCinco =>
        /\ chamada.ret.caminho = <<"A", "C", "B", "D", "E">>
        /\ chamada.ret.distancia = 10

\* C16 amended: on that graph dijkstra('A', 'E') returns the path
\* [A, C, D, E] with cost 9.
C16_RotaACDE ==
    RotaNaMalhaCinco =>
        /\ chamada.ret.caminho = <<"A", "C", "D", "E">>
        /\ chamada.ret.distancia = 9

\* the route was asked for on that graph and cost what its edges add up to
C16_Witness ==
    /\ RotaNaMalhaCinco
    /\ chamada.ret.caminho # SemCaminho
    /\ chamada.ret.distancia = SomaPesos(arestas, chamada.ret.caminho)

\* every path without a repeated vertex from atual to destino that avoids visitados
RECURSIVE CaminhosSimples(_, _, _, _)
CaminhosSimples(A, atual, destino, visitados) ==
    IF atual = destino THEN {<<atual>>}
    ELSE UNION {{<<atual>> \o p : p \in CaminhosSimples(A, v, destino, visitados \cup {atual})} :
                   v \in Vizinhos(A, atual) \ (visitados \cup {atual})}

EscritasDePeso == {"atualizar_peso", "registrar_evento", "remover_evento"}

ConsultasDeRota == {"dijkstra", "calcular_rota_otima"}

\* a route query is the first call after a weight write that succeeded
ConsultaAposEscrita ==
    /\ chamada.op \in EscritasDePeso
    /\ chamada.ret = TRUE
    /\ chamada' # chamada
    /\ chamada'.op \in ConsultasDeRota

\* C17: a route query sees the latest weight write: in the first
\* dijkstra(s, d) / calcular_rota_otima(s, d) after atualizar_peso,
\* registrar_evento or remover_evento has changed a weight, no path from s to
\* d that is now strictly more expensive than another path from s to d is
\* returned, so whichever of them the previous query had returned, the answer
\* is a different path.
C17_ConsultaVeEscrita ==
    [][ConsultaAposEscrita =>
          LET rotas == CaminhosSimples(arestas, chamada'.origem, chamada'.destino, {})
          IN  /\ rotas # {} => chamada'.ret.caminho \in rotas
              /\ \A p \in rotas :
                     (\E q \in rotas : SomaPesos(arestas, q) < SomaPesos(arestas, p))
                         => chamada'.ret.caminho # p]_vars

\* an accident of +10 on A-B is active and the route from A to C, which was
\* A-B-C on the weights of construction, is answered as A-C
C17_Witness ==
    /\ motor = Basico
    /\ chamada.op = "calcular_rota_otima"
    /\ chamada.origem = "A"
    /\ chamada.destino = "C"
    /\ ExisteAresta(arestas, "A", "B")
    /\ arestas[<<"A", "B">>] = pesos_originais[<<"A", "B">>] + 10
    /\ dijkstra(vertices, pesos_originais, "A", "C").caminho = <<"A", "B", "C">>
    /\ chamada.ret.caminho = <<"A", "C">>

\* A-C was raised to 10 on the five-vertex graph and the route from A to E is
\* no longer the one of the weights of construction
C17_WitnessGrafo ==
    /\ motor = Grafo
    /\ chamada.op = "dijkstra"
    /\ chamada.origem = "A"
    /\ chamada.destino = "E"
    /\ arestas[<<"A", "C">>] = 10
    /\ pesos_originais[<<"A", "C">>] < 10
    /\ chamada.ret.caminho # SemCaminho
    /\ chamada.ret.caminho # dijkstra(vertices, pesos_originais, "A", "E").caminho

\* C18: immediately after adicionar_aresta(u, v, w), obter_peso(u, v) =
\* obter_peso(v, u) = w and obter_peso_original(u, v) =
\* obter_peso_original(v, u) = w, and both u and v are in the vertex set,
\* whether or not the vertices or the edge existed before.
C18_AposAdicionarAresta ==
    chamada.op = "adicionar_aresta" =>
        /\ obter_peso(arestas, chamada.origem, chamada.destino) = chamada.peso
        /\ obter_peso(arestas, chamada.destino, chamada.origem) = chamada.peso
        /\ obter_peso_original(pesos_originais, chamada.origem, chamada.destino) = chamada.peso
        /\ obter_peso_original(pesos_originais, chamada.destino, chamada.origem) = chamada.peso
        /\ chamada.origem \in vertices
        /\ chamada.destino \in vertices

\* the edge was there, carrying the impact of an incident registered on it,
\* when it was added again with weight 0
C18_Witness ==
    /\ chamada.op = "adicionar_aresta"
    /\ \E i \in DOMAIN Registros(raiz) :
          /\ Registros(raiz)[i].localizacao = <<chamada.origem, chamada.destino>>
          /\ Registros(raiz)[i].impacto > 0
    /\ chamada.peso = 0
    /\ arestas[<<chamada.origem, chamada.destino>>] = 0

\* the edge and its two ends were new to the graph
C18_WitnessNova ==
    /\ chamada.op = "adicionar_aresta"
    /\ vertices = {chamada.origem, chamada.destino}
    /\ DOMAIN arestas = {<<chamada.origem, chamada.destino>>,
                         <<chamada.destino, chamada.origem>>}

\* every entry of a weight map has its reverse, with the same weight
Simetrico(A) ==
    \A k \in DOMAIN A :
        /\ <<k[2], k[1]>> \in DOMAIN A
        /\ A[<<k[2], k[1]>>] = A[k]

\* C19: in every state reached by adicionar_aresta, remover_aresta,
\* atualizar_peso, registrar_evento, remover_evento and comparar_rotas calls
\* the graph is symmetric: v is in arestas[u] exactly when u is in arestas[v],
\* obter_peso(u, v) = obter_peso(v, u) and obter_peso_original(u, v) =
\* obter_peso_original(v, u).
C19_GrafoSimetrico ==
    /\ Simetrico(arestas)
    /\ Simetrico(pesos_originais)
    /\ \A u \in Vertices \cup {"E"}, v \in Vertices \cup {"E"} :
          /\ obter_peso(arestas, u, v) = obter_peso(arestas, v, u)
          /\ obter_peso_original(pesos_originais, u, v)
                = obter_peso_original(pesos_originais, v, u)

\* comparar_rotas has swapped and put back the weights of a graph of three
\* roads, one of them carrying an incident
C19_Witness ==
    /\ chamada.op = "comparar_rotas"
    /\ Cardinality(DOMAIN arestas) = 6
    /\ \E k \in DOMAIN arestas : arestas[k] > pesos_originais[k]

SemEdicaoDeTopologia ==
    {"atualizar_peso", "registrar_evento", "remover_evento", "comparar_rotas",
     "calcular_rota_otima", "eventos_na_rota"}

\* C20: baseline weights are changed only by topology edits: atualizar_peso,
\* registrar_evento, remover_evento, comparar_rotas, calcular_rota_otima and
\* eventos_na_rota leave pesos_originais unchanged for every edge, and
\* atualizar_peso on an absent edge returns False and changes nothing.
C20_OriginaisPreservados ==
    [][(chamada' # chamada /\ chamada'.op \in SemEdicaoDeTopologia) =>
          /\ pesos_originais' = pesos_originais
          /\ (/\ chamada'.op = "atualizar_peso"
              /\ ~ExisteAresta(arestas, chamada'.origem, chamada'.destino)) =>
                  /\ chamada'.ret = FALSE
                  /\ Inalterado]_vars

\* atualizar_peso has moved an edge away from its baseline
C20_Witness ==
    /\ chamada.op = "atualizar_peso"
    /\ chamada.ret = TRUE
    /\ arestas[<<chamada.origem, chamada.destino>>] = chamada.novo_peso
    /\ pesos_originais[<<chamada.origem, chamada.destino>>] # chamada.novo_peso

\* atualizar_peso was called on a pair that is not an edge of a graph with edges
C20_WitnessAusente ==
    /\ chamada.op = "atualizar_peso"
    /\ chamada.ret = FALSE
    /\ ~ExisteAresta(arestas, chamada.origem, chamada.destino)
    /\ arestas # <<>>

\* comparar_rotas has returned on a graph whose weights are away from the baselines
C20_WitnessComparar ==
    /\ chamada.op = "comparar_rotas"
    /\ arestas # pesos_originais
    /\ DOMAIN arestas = DOMAIN pesos_originais

(* Properties of eventos_na_rota, checked under SpecChamadas *)

\* the ids of a list of nodes, in the order of the list
IdsEmOrdem(nos) == [i \in DOMAIN nos |-> nos[i].id]

\* the incidents of the index registered on the road between u and v, in
\* either direction, in the order of the index
IncidentesDaVia(r, u, v) ==
    SelectSeq(listar_todos(r),
              LAMBDA no : no.localizacao \in {<<u, v>>, <<v, u>>})

\* the incidents of the segments of caminho, segment after segment
RECURSIVE IncidentesDosSegmentos(_, _)
IncidentesDosSegmentos(r, caminho) ==
    IF Len(caminho) < 2 THEN <<>>
    ELSE IncidentesDaVia(r, caminho[1], caminho[2])
         \o IncidentesDosSegmentos(r, Tail(caminho))

\* C21: eventos_na_rota(path) returns an empty list when no edge between
\* consecutive vertices of path carries an active incident, and for paths
\* with fewer than two vertices; otherwise it returns the incidents of the
\* path's segments concatenated in path order.
C21_EventosDosSegmentos ==
    chamada.op = "eventos_na_rota" =>
        /\ Len(chamada.caminho) < 2 => chamada.ret = <<>>
        /\ IncidentesDosSegmentos(raiz, chamada.caminho) = <<>> => chamada.ret = <<>>
        /\ IdsEmOrdem(chamada.ret)
              = IdsEmOrdem(IncidentesDosSegmentos(raiz, chamada.caminho))

\* C22: an incident registered with registrar_evento(tipo, u, v, ...) is
\* returned by eventos_na_rota(path) for every path that traverses the edge
\* {u, v}, whether the path goes u then v or v then u.
C22_BuscaPorVia ==
    chamada.op = "eventos_na_rota" =>
        \A i \in 1..(Len(chamada.caminho) - 1) :
            \A j \in DOMAIN listar_todos(raiz) :
                listar_todos(raiz)[j].localizacao
                    \in {<<chamada.caminho[i], chamada.caminho[i + 1]>>,
                         <<chamada.caminho[i + 1], chamada.caminho[i]>>}
                => \E k \in DOMAIN chamada.ret :
                       chamada.ret[k].id = listar_todos(raiz)[j].id

(* Properties of the ids of SistemaTransito *)

\* C23: in any sequence of registrar_evento and remover_evento calls on one
\* SistemaTransito, each successful registration receives an id strictly
\* greater than every id assigned before it (all of them lie below
\* proximo_id_evento, which never decreases), a failed registration consumes
\* no id, no two incidents of the index share an id and no id is reused.
C23_IdsCrescentes ==
    [][motor = Basico =>
          /\ \A i \in IdsDe(raiz) : i < proximo_id_evento
          /\ proximo_id_evento' >= proximo_id_evento
          /\ \A i \in IdsDe(raiz') \ IdsDe(raiz) :
                 i >= proximo_id_evento /\ i < proximo_id_evento'
          /\ Cardinality(IdsDe(raiz')) = Len(listar_todos(raiz'))
          /\ (chamada' # chamada /\ chamada'.op = "registrar_evento") =>
                 IF chamada'.ret = TRUE
                     THEN /\ IdsDe(raiz') = IdsDe(raiz) \cup {proximo_id_evento}
                          /\ proximo_id_evento' = proximo_id_evento + 1
                     ELSE /\ IdsDe(raiz') = IdsDe(raiz)
                          /\ proximo_id_evento' = proximo_id_evento]_vars

\* the second registration came after the removal of the first incident and
\* did not take its id again
C23_Witness ==
    /\ motor = Basico
    /\ chamada.op = "registrar_evento"
    /\ chamada.ret = TRUE
    /\ IdsDe(raiz) = {2}
    /\ proximo_id_evento = 3

\* a registration was refused after one had succeeded
C23_WitnessRecusado ==
    /\ motor = Basico
    /\ chamada.op = "registrar_evento"
    /\ chamada.ret = FALSE
    /\ proximo_id_evento = 2

(* Properties of the answer "no route" *)

\* a path from origem to destino over the edges of A exists, whatever the weights
Ligados(V, A, origem, destino) ==
    /\ origem \in V
    /\ destino \in V
    /\ CaminhosSimples(A, origem, destino, {}) # {}

SemRota == [caminho |-> SemCaminho, distancia |-> Inf]

\* what C27 says of the route query that has just returned, under a hypothesis
SemRotaSeNaoLigados(hipotese) ==
    (chamada.op \in ConsultasDeRota /\ hipotese) =>
        \E d \in {dijkstra(vertices, arestas, chamada.origem, chamada.destino)} :
            /\ chamada.op = "dijkstra" => chamada.ret = d
            /\ d = SemRota <=> ~Ligados(vertices, arestas, chamada.origem, chamada.destino)
            /\ d = SemRota <=> ~existe_caminho(vertices, arestas,
                                                chamada.origem, chamada.destino)
            /\ d.caminho = SemCaminho => d = SemRota
            /\ chamada.op = "calcular_rota_otima" =>
                   IF d = SemRota
                       THEN chamada.ret = [caminho |-> SemCaminho, distancia |-> Nil,
                                           status |-> "Nao ha rota disponivel"]
                       ELSE /\ chamada.ret.status = "OK"
                            /\ chamada.ret.caminho = d.caminho
                            /\ chamada.ret.distancia = d.distancia

PesosFinitos(A) == \A k \in DOMAIN A : A[k] < Inf

\* C27 as stated: dijkstra(s, d) returns (None, infinity) exactly when s or
\* d is not in the vertex set or no path connects them, that is exactly when
\* existe_caminho(s, d) is False, independent of edge weights; in that case
\* calcular_rota_otima returns (None, None, 'Nao ha rota disponivel') and
\* otherwise status 'OK'.
C27_SemRota == SemRotaSeNaoLigados(TRUE)

\* C27 amended: the same, on graphs whose edge weights are all finite.
C27_SemRotaPesosFinitos == SemRotaSeNaoLigados(PesosFinitos(arestas))

\* both ends are vertices of a graph of finite weights and no road leads from
\* one to the other
C27_Witness ==
    /\ chamada.op = "calcular_rota_otima"
    /\ chamada.origem \in vertices
    /\ chamada.destino \in vertices
    /\ arestas # <<>>
    /\ PesosFinitos(arestas)
    /\ chamada.ret.status = "Nao ha rota disponivel"

\* one end of the route is not a vertex of the graph
C27_WitnessAusente ==
    /\ chamada.op = "calcular_rota_otima"
    /\ chamada.origem \in vertices
    /\ chamada.destino \notin vertices
    /\ chamada.ret.status = "Nao ha rota disponivel"

\* a route was found, by dijkstra and by calcular_rota_otima
C27_WitnessRota ==
    /\ chamada.op \in ConsultasDeRota
    /\ chamada.ret.caminho # SemCaminho
    /\ Len(chamada.ret.caminho) > 2

(* Properties of the calls with invalid input, checked under SpecLimites *)

EntradaInvalida ==
    /\ chamada' # chamada
    /\ \/ chamada'.op = "registrar_evento" /\ chamada'.impacto <= 0
       \/ chamada'.op = "adicionar_aresta" /\ chamada'.peso <= 0

\* C29: SistemaTransito.registrar_evento with impacto <= 0 and
\* GrafoPonderado.adicionar_aresta with peso <= 0 return a failure and leave
\* weights, baseline weights, the index and the id counter unchanged.
C29_EntradaInvalidaRecusada ==
    [][EntradaInvalida => (chamada'.ret = FALSE /\ Inalterado)]_vars

(* Properties of the index of a SistemaTransito, checked under SpecIndice *)

\* the list without its i-th element
SemPosicao(lista, i) == SubSeq(lista, 1, i - 1) \o SubSeq(lista, i + 1, Len(lista))

\* a search tree by id: everything to the left of a node has a smaller id,
\* everything to the right a greater one
RECURSIVE ArvoreDeBuscaPorId(_)
ArvoreDeBuscaPorId(no) ==
    no = Nil \/
        /\ \A i \in IdsDe(no.esquerda) : i < no.id
        /\ \A i \in IdsDe(no.direita) : i > no.id
        /\ ArvoreDeBuscaPorId(no.esquerda)
        /\ ArvoreDeBuscaPorId(no.direita)

\* C30: in a SistemaTransito driven only by registrar_evento and
\* remover_evento with a non-decreasing clock, the tree ordered by timestamp
\* is also a search tree by id in every reachable state: avl.buscar(id) finds
\* every incident of the index, and remover_evento(id) succeeds and deletes
\* exactly that incident for every such id.
C30_IndicePorId ==
    [][/\ ArvoreDeBuscaPorId(raiz)
       /\ \A i \in IdsDe(raiz) : buscar(raiz, i) # Nil /\ buscar(raiz, i).id = i
       /\ (chamada' # chamada /\ chamada'.op = "buscar" /\ chamada'.id \in IdsDe(raiz)) =>
              /\ chamada'.ret # Nil
              /\ chamada'.ret.id = chamada'.id
       /\ (chamada' # chamada /\ chamada'.op = "remover_evento"
              /\ chamada'.id \in IdsDe(raiz)) =>
              /\ chamada'.ret = TRUE
              /\ total_eventos' = total_eventos - 1
              /\ \E k \in DOMAIN Registros(raiz) :
                     /\ Registros(raiz)[k].id = chamada'.id
                     /\ Registros(raiz') = SemPosicao(Registros(raiz), k)]_vars

\* an incident that has a left and a right subtree below it was removed
\* from an index of incidents registered at two readings of the clock
C30_Witness ==
    /\ chamada.op = "remover_evento"
    /\ chamada.ret = TRUE
    /\ Len(listar_todos(raiz)) >= 3
    /\ \E i \in 1..MaxRegistros : i < chamada.id /\ i \in IdsDe(raiz)
    /\ \E i \in 1..MaxRegistros : i > chamada.id /\ i \in IdsDe(raiz)
    /\ \E i, j \in DOMAIN listar_todos(raiz) :
          listar_todos(raiz)[i].timestamp # listar_todos(raiz)[j].timestamp

(* Properties of salvar_dados and carregar_dados, checked under SpecArquivos *)

\* the step is a carregar_dados: every other call leaves another op in chamada
Carga == chamada'.op = "carregar_dados"

\* the ids of the records of the incident file
IdsDoArquivo ==
    IF arquivos.eventos = Nil THEN {}
    ELSE {arquivos.eventos.linhas[i][1] : i \in 1..arquivos.eventos.n_eventos}

\* C24: after carregar_dados returns success, on an engine that was empty or
\* already held incidents, from an incident file of zero or more records,
\* the incidents of the file are in the index under their file ids and
\* proximo_id_evento is greater than the id of every incident in the index.
C24_ContadorAposCarga ==
    [][(Carga /\ chamada'.ret = TRUE) =>
          /\ IdsDoArquivo \subseteq IdsDe(raiz')
          /\ \A i \in IdsDe(raiz') : i < proximo_id_evento']_vars

\* the engine that carregar_dados filled holds what the engine that wrote
\* the files held
MesmoEstado ==
    /\ vertices' = vertices
    /\ pesos_originais' = pesos_originais
    /\ Registros(raiz') = Registros(raiz)
    /\ arestas' = arestas

\* C25: salvar_dados followed by carregar_dados into a new engine gives the
\* vertex set, the edges with their baseline weights, the incidents and the
\* current weight of every edge that the saving engine had.
C25_IdaEVoltaDosArquivos ==
    [][(chamada.op = "salvar_dados" /\ Carga /\ chamada'.novo) => MesmoEstado]_vars

\* the graph, the index and the counter of the engine that carregar_dados
\* was called on are what they were before the call
AlvoInalterado ==
    IF chamada'.novo
        THEN /\ vertices' = {}
             /\ arestas' = DictVazio
             /\ pesos_originais' = DictVazio
             /\ raiz' = Nil
             /\ total_eventos' = 0
             /\ proximo_id_evento' = 1
        ELSE Inalterado

\* C26: a carregar_dados that fails (missing network file, malformed line
\* in the network file or in the incident file) returns failure and leaves
\* the graph, the index and proximo_id_evento of its engine as they were.
C26_CargaFalhaSemEfeito ==
    [][(Carga /\ chamada'.ret = FALSE) => AlvoInalterado]_vars

\* the edge lines of the network file whose baseline weight is 0
ViasDeBaseZeroNoArquivo ==
    IF arquivos.grafo = Nil THEN {}
    ELSE {<<arquivos.grafo.linhas[i][1], arquivos.grafo.linhas[i][2]>> :
             i \in {j \in 1..arquivos.grafo.n_arestas :
                       arquivos.grafo.linhas[j][3] = <<0>>}}

\* remover_evento found its incident on an edge whose baseline weight is 0
RemoveDeBaseZero ==
    /\ chamada' # chamada
    /\ chamada'.op = "remover_evento"
    /\ chamada'.ret = TRUE
    /\ buscar(raiz, chamada'.id).localizacao \in DOMAIN pesos_originais
    /\ pesos_originais[buscar(raiz, chamada'.id).localizacao] = 0

\* C28: on an edge whose baseline weight is 0, remover_evento of an incident
\* located on it leaves the current weight at 0, and a carregar_dados into a
\* new engine leaves on it the sum of the impacts of the imported incidents
\* located on it.
C28_PesoZeroExiste ==
    [][/\ RemoveDeBaseZero =>
              arestas'[buscar(raiz, chamada'.id).localizacao] = 0
       /\ (Carga /\ chamada'.novo /\ chamada'.ret = TRUE) =>
              \A k \in ViasDeBaseZeroNoArquivo :
                  arestas'[k] = SomaImpactos(listar_todos(raiz'), k)]_vars

(* Properties of the shape of ArvoreAVL, checked under SpecAVL *)

\* the position of the last record of l whose timestamp is <= ts, 0 if none
UltimoAte(l, ts) ==
    IF \E i \in DOMAIN l : l[i].timestamp <= ts
        THEN CHOOSE i \in DOMAIN l :
                 /\ l[i].timestamp <= ts
                 /\ \A j \in DOMAIN l : l[j].timestamp <= ts => j <= i
        ELSE 0

\* C31: inserir(id, ts, ...) returns True and listar_todos() after it is
\* the list before it with the new record placed directly after the last
\* record whose timestamp is <= ts; the other records keep their order.
C31_InserirNaOrdem ==
    [][chamada'.op = "inserir" =>
          LET p == UltimoAte(Registros(raiz), chamada'.timestamp)
          IN  /\ chamada'.ret = TRUE
              /\ Len(Registros(raiz')) = Len(Registros(raiz)) + 1
              /\ Registros(raiz')[p + 1].id = chamada'.id
              /\ Registros(raiz')[p + 1].timestamp = chamada'.timestamp
              /\ SemPosicao(Registros(raiz'), p + 1) = Registros(raiz)]_vars

\* the node just inserted is the root of a tree of three nodes or more, which
\* only a double rotation brings about, and an older record has its timestamp
C31_Witness ==
    /\ chamada.op = "inserir"
    /\ IdsDistintos(raiz)
    /\ Len(listar_todos(raiz)) >= 3
    /\ raiz.id = chamada.id
    /\ \E i \in DOMAIN listar_todos(raiz) :
          /\ listar_todos(raiz)[i].id # chamada.id
          /\ listar_todos(raiz)[i].timestamp = chamada.timestamp

\* the altura field of every node of the tree is 1 + the greater of the real
\* heights of its subtrees
RECURSIVE AlturasCertas(_)
AlturasCertas(no) ==
    \/ no = Nil
    \/ /\ no.altura = 1 + Max(AlturaReal(no.esquerda), AlturaReal(no.direita))
       /\ AlturasCertas(no.esquerda)
       /\ AlturasCertas(no.direita)

\* C32: in every state reached by inserir and remover calls, the altura
\* stored in every node is 1 + max(real height of the left subtree, real
\* height of the right subtree), an empty subtree having height 0.
C32_AlturasCertas == AlturasCertas(raiz)

\* a removal of a node with two children from a tree of four nodes, which
\* left a tree of height 2
C32_Witness ==
    /\ chamada.op = "remover"
    /\ chamada.ret = TRUE
    /\ Len(listar_todos(chamada.antes)) = 4
    /\ buscar(chamada.antes, chamada.id).esquerda # Nil
    /\ buscar(chamada.antes, chamada.id).direita # Nil
    /\ Len(listar_todos(raiz)) = 3
    /\ raiz.altura = 2

(* Properties of what comparar_rotas returns, checked under SpecComparar *)

\* the graph with every edge at its baseline weight
MalhaDeBase == [k \in DOMAIN arestas |-> pesos_originais[k]]

\* no edge is cheaper than its baseline weight
PesosAcimaDaBase == \A k \in DOMAIN arestas : arestas[k] >= pesos_originais[k]

\* comparar_rotas(s, d) returns as rota_ideal what dijkstra(s, d) gives with
\* every edge at its baseline weight, as rota_atual what it gives with the
\* current weights, and as impacto the cost of rota_atual minus the cost of
\* rota_ideal, 0 when there is no route; under the hypothesis, impacto >= 0
RetornoDeComparar(hipotese) ==
    (motor = Basico /\ chamada'.op = "comparar_rotas") =>
        LET s == chamada'.origem
            d == chamada'.destino
            ideal == dijkstra(vertices, MalhaDeBase, s, d)
            atual == dijkstra(vertices, arestas, s, d)
        IN  /\ DOMAIN arestas \subseteq DOMAIN pesos_originais
            /\ chamada'.ret.rota_ideal = ideal
            /\ chamada'.ret.rota_atual = atual
            /\ chamada'.ret.impacto =
                   IF ideal.caminho = SemCaminho THEN 0
                   ELSE SomaPesos(arestas, atual.caminho)
                            - SomaPesos(MalhaDeBase, ideal.caminho)
            /\ (ideal.caminho = SemCaminho) = (atual.caminho = SemCaminho)
            /\ hipotese => chamada'.ret.impacto >= 0

C33_WitnessSemRota ==
    /\ motor = Basico
    /\ chamada.op = "comparar_rotas"
    /\ chamada.origem \in vertices
    /\ chamada.destino \in vertices
    /\ chamada.ret.rota_ideal.caminho = SemCaminho
    /\ chamada.ret.impacto = 0

(* Properties of rota_mais_longa_mas_rapida, checked under SpecDesvio *)

\* C34: whenever SistemaTransitoMelhorado.comparar_rotas reports
\* rota_mais_longa_mas_rapida true, the current route is strictly longer in
\* distance than the ideal route, and its travel time under the current
\* weights is strictly less than the travel time of the path of the ideal
\* route under the current weights.
C34_MaisLongaMasRapida ==
    [][(/\ motor = Melhorado
        /\ chamada'.op = "comparar_rotas"
        /\ chamada'.ret # Nil
        /\ chamada'.ret.rota_mais_longa_mas_rapida) =>
          LET ideal == chamada'.ret.rota_ideal.caminho
              atual == chamada'.ret.rota_atual.caminho
          IN  /\ _distancia_total(arestas, velocidades, atual)
                     > _distancia_total(arestas, velocidades, ideal)
              /\ SomaPesos(arestas, atual) < SomaPesos(arestas, ideal)]_vars

(* Properties of the incidents of removed roads, checked under SpecVias *)

\* every incident of the index is located on an edge of the graph
IncidentesEmVias ==
    \A i \in DOMAIN listar_todos(raiz) :
        ExisteAresta(arestas, listar_todos(raiz)[i].localizacao[1],
                     listar_todos(raiz)[i].localizacao[2])

\* C35: in every state reached by adicionar_aresta, remover_aresta,
\* registrar_evento and remover_evento, every incident of the index refers
\* to an edge of the graph, and remover_evento(id) of an id of the index
\* returns success and deletes the incident, in SistemaTransito and in
\* SistemaTransitoMelhorado, also after the edge of the incident was removed.
C35_IncidentesRemoviveis ==
    [][/\ IncidentesEmVias
       /\ (chamada' # chamada /\ chamada'.op = "remover_evento"
              /\ chamada'.id \in IdsDe(raiz)) =>
              /\ chamada'.ret = TRUE
              /\ chamada'.id \notin IdsDe(raiz')
              /\ total_eventos' = total_eventos - 1]_vars

(* Properties of remover_aresta, checked under SpecGrafo *)

\* C36: remover_aresta(u, v) on an existing edge returns True without
\* raising and removes both directions and both baseline entries, for every
\* pair of vertices, u = v included; the vertex set is left unchanged.
C36_RemoverArestaExistente ==
    [][(/\ chamada'.op = "remover_aresta"
        /\ ExisteAresta(arestas, chamada'.origem, chamada'.destino)) =>
          LET u == chamada'.origem
              v == chamada'.destino
          IN  /\ ~chamada'.excecao
              /\ chamada'.ret = TRUE
              /\ <<u, v>> \notin DOMAIN arestas'
              /\ <<v, u>> \notin DOMAIN arestas'
              /\ <<u, v>> \notin DOMAIN pesos_originais'
              /\ <<v, u>> \notin DOMAIN pesos_originais'
              /\ vertices' = vertices]_vars

\* ---------------------------------------------------------------------
\* Properties of the time-based registrar_evento, checked under Spec
\* ---------------------------------------------------------------------

\* C37: in SistemaTransitoMelhorado a successful registrar_evento never
\* makes the road faster: the travel time of the road after the call is at
\* least its travel time before, and the impact stored in the index for
\* the new incident is greater than 0.
C37_EventoNuncaAcelera ==
    [][(/\ chamada'.op = "registrar_evento"
        /\ motor = Melhorado
        /\ chamada'.ret) =>
          LET via == <<chamada'.origem, chamada'.destino>>
          IN  /\ arestas'[via] >= arestas[via]
              /\ buscar(raiz', chamada'.id).impacto > 0]_vars

\* ---------------------------------------------------------------------
\* Properties of limpar_eventos_expirados, checked under SpecExpirar
\* ---------------------------------------------------------------------

\* the records of the index, each as often as the index holds it
RegistrosDe(r) ==
    LET nos == listar_todos(r)
        reg(no) == <<no.id, no.timestamp, no.tipo, no.localizacao, no.impacto>>
        todos == {reg(nos[k]) : k \in DOMAIN nos}
    IN  [x \in todos |-> Cardinality({k \in DOMAIN nos : reg(nos[k]) = x})]

\* the records of the index that are not older than tempo_expiracao
RegistrosJovens(r, agora, tempo_expiracao) ==
    LET todos == RegistrosDe(r)
        jovens == {x \in DOMAIN todos : agora - x[2] <= tempo_expiracao}
    IN  [x \in jovens |-> todos[x]]

\* C38: limpar_eventos_expirados(T) removes from the index exactly the
\* incidents whose age (current time - timestamp) exceeds T, leaves every
\* younger incident in the index, and returns the number of incidents
\* removed, by which total_eventos drops.
C38_LimparExpirados ==
    [][chamada'.op = "limpar_eventos_expirados" =>
          /\ RegistrosDe(raiz') =
                 RegistrosJovens(raiz, relogio, chamada'.tempo_expiracao)
          /\ chamada'.ret = Tamanho(raiz) - Tamanho(raiz')
          /\ total_eventos' = total_eventos - chamada'.ret]_vars

\* ---------------------------------------------------------------------
\* Properties of the main loop of dijkstra, checked under SpecDijkstraJusta
\* ---------------------------------------------------------------------

\* one pass of the loop: a vertex popped after it was visited is dropped
\* and nothing else changes; a vertex popped for the first time joins
\* visitados alone; a distance changes for an unvisited neighbour of the
\* popped vertex only; the pass that pops the destination ends the loop
PassoDoLaco ==
    (quadro.pc = "laco" /\ quadro'.pc = "laco" /\ quadro' # quadro) =>
        LET st == quadro.st
            depois == quadro'.st
            atual == MenorDaFila(st.fila)[2]
        IN  /\ atual \in st.visitados =>
                   /\ depois.visitados = st.visitados
                   /\ depois.distancias = st.distancias
                   /\ depois.fila \subseteq st.fila
            /\ atual \notin st.visitados =>
                   depois.visitados = st.visitados \cup {atual}
            /\ \A v \in DOMAIN st.distancias :
                   depois.distancias[v] # st.distancias[v] =>
                       /\ v \notin depois.visitados
                       /\ v \in Vizinhos(arestas, atual)
            /\ (atual = quadro.destino /\ atual \notin st.visitados) =>
                   /\ depois.parou
                   /\ depois.distancias = st.distancias
                   /\ depois.fila \subseteq st.fila

\* C39: dijkstra terminates on every graph and every pair of vertices,
\* zero weights included: each vertex joins visitados at most once, only
\* unvisited neighbours are relaxed, the loop stops when the destination
\* is popped, and a call that has entered the main loop returns.
C39_DijkstraTermina ==
    /\ [][PassoDoLaco]_vars
    /\ (quadro.pc = "laco") ~> (quadro.pc = "ocioso")

\* a call over the zero-weight roads A-B and B-C has returned the route
\* A, B, C of length 0
C39_Witness ==
    /\ quadro.pc = "ocioso"
    /\ chamada.op = "dijkstra"
    /\ chamada.ret.caminho = <<"A", "B", "C">>
    /\ chamada.ret.distancia = 0
====
